---- MODULE Spec2Model ----
(***************************************************************************)
(* A model of esptool's command layer (src/esptool/cmds.py): write_flash   *)
(* with its security, encryption and geometry pre-flights, the per-task    *)
(* transfer loop and its retry-on-disconnect path.                         *)
(*                                                                         *)
(* The device session `esp` carries the ESPLoader attributes the commands  *)
(* read (CHIP_NAME, IS_STUB, secure_download_mode, the eFuse getters'      *)
(* answers) and the state of the transport handle esp._port.  `wire` is    *)
(* the log of the calls made on the session and on the port.               *)
(***************************************************************************)
EXTENDS Integers, Sequences, FiniteSets, TLC

(***************************************************************************)
(* Bounds of the model.                                                    *)
(***************************************************************************)
\* Bytes per data block (ESPLoader.FLASH_WRITE_SIZE, scaled down).
FLASH_WRITE_SIZE == 4
\* Iterations of the reconnect poll loop (loader.DEFAULT_CONNECT_ATTEMPTS, scaled down).
DEFAULT_CONNECT_ATTEMPTS == 2
\* SerialExceptions the transport raises during the transfers of a request of
\* several tasks.
MaxFaults == 2

(***************************************************************************)
(* Program constants.                                                      *)
(***************************************************************************)
\* for attempt in range(1, esp.WRITE_FLASH_ATTEMPTS + 1)
WRITE_FLASH_ATTEMPTS == 3
\* b"\xff", the erased-flash fill byte
FF == 255
\* the secure boot protected region: address < 0x8000
SECURE_BOOT_LIMIT == 32768
\* esp.FLASH_SECTOR_SIZE
FLASH_SECTOR_SIZE == 4096
\* default value of max_rev_full
MAX_REV_DEFAULT == 65535
\* Python's None, for flash sizes and FLASH_CRYPT_CONFIG
None == 0 - 1
\* A transport that may fail at every call.
Unlimited == 0 - 1

NoErr == [exc |-> "", msg |-> ""]
Fatal(m) == [exc |-> "FatalError", msg |-> m]

(***************************************************************************)
(* Byte strings.                                                           *)
(***************************************************************************)
Max(a, b) == IF a >= b THEN a ELSE b
Min(a, b) == IF a <= b THEN a ELSE b

\* b"\xff" * n
Fill(n) == [i \in 1..n |-> FF]

\* image[0:n]
Take(s, n) == SubSeq(s, 1, Min(n, Len(s)))

\* image[n:]
Drop(s, n) == SubSeq(s, Min(n, Len(s)) + 1, Len(s))

\* util.pad_to(data, alignment): pad with 0xFF up to a multiple of alignment
pad_to(data, alignment) ==
    IF Len(data) % alignment = 0 THEN data
    ELSE data \o Fill(alignment - (Len(data) % alignment))

\* Length of the run of equal bytes that starts s (s non-empty).
RunLen(s) ==
    CHOOSE k \in 1..Len(s) :
        /\ \A i \in 1..k : s[i] = s[1]
        /\ (k = Len(s) \/ s[k + 1] # s[1])

\* zlib.compress: a lossless encoding whose output is not its input; modelled as
\* run-length pairs <<count, byte>>.
RECURSIVE Compress(_)
Compress(s) ==
    IF s = <<>> THEN <<>>
    ELSE LET k == RunLen(s) IN <<k, s[1]>> \o Compress(Drop(s, k))

\* zlib decompression of a whole stream.
RECURSIVE Decompress(_)
Decompress(c) ==
    IF Len(c) < 2 THEN <<>>
    ELSE [i \in 1..c[1] |-> c[2]] \o Decompress(Drop(c, 2))

\* hashlib.md5(data).hexdigest(): a collision-free digest
MD5(data) == <<"md5", data>>

(***************************************************************************)
(* Flash sizes.                                                            *)
(***************************************************************************)
\* util.flash_size_bytes: "4MB" -> bytes, None -> None
flash_size_bytes(size) ==
    CASE size = "None" -> None
      [] size = "1MB" -> 1 * 1024 * 1024
      [] size = "2MB" -> 2 * 1024 * 1024
      [] size = "4MB" -> 4 * 1024 * 1024

\* DETECTED_FLASH_SIZES.get(size_id) for the ids the model's devices answer with
\* (0x14, 0x15, 0x16; any other id here stands for one the table does not hold)
DETECTED_FLASH_SIZES(size_id) ==
    CASE size_id = 20 -> "1MB"
      [] size_id = 21 -> "2MB"
      [] size_id = 22 -> "4MB"
      [] OTHER -> "None"

\* detect_flash_size(esp): FatalError in secure download mode, else the table's
\* answer for flash_id >> 16
detect_flash_size(esp) ==
    IF esp.secure_download_mode
    THEN [err |-> Fatal("detect_flash_size in secure download mode"), size |-> "None"]
    ELSE [err |-> NoErr, size |-> DETECTED_FLASH_SIZES(esp.flash_size_id)]

\* _set_flash_parameters(esp, flash_size): the flash size write_flash goes on with
_set_flash_parameters(esp, flash_size) ==
    IF flash_size = "detect"
    THEN LET d == detect_flash_size(esp) IN
         IF d.err # NoErr THEN d
         ELSE [err |-> NoErr, size |-> IF d.size = "None" THEN "4MB" ELSE d.size]
    ELSE [err |-> NoErr, size |-> flash_size]

(***************************************************************************)
(* write_flash: the pre-flights (lines 471-645).                           *)
(*                                                                         *)
(* A request `req` is write_flash's arguments.  A task is a record         *)
(* [address, file]; a file is [name, data, img] where img is what          *)
(* LoadFirmwareImage makes of it (img.ok = FALSE: it raises).              *)
(***************************************************************************)
\* set compress based on default behaviour (lines 474-475)
DefaultCompress(esp, req) ==
    IF ~req.compress /\ ~req.no_compress THEN esp.IS_STUB ELSE req.compress

\* Mutant of use_rev_full_fields: the extended fields are used whenever
\* max_rev_full is set, also when only the legacy min_rev is.
use_rev_full_fields_NoLegacy(image) == image.max_rev_full # 0

\* which min_rev to use, min_rev or min/max_rev_full (lines 503-512)
use_rev_full_fields(image) ==
    IF image.max_rev_full = 0 THEN FALSE
    ELSE IF image.max_rev_full = MAX_REV_DEFAULT
         THEN ~(image.min_rev_full = 0 /\ image.min_rev # 0)
         ELSE TRUE

\* The chip_id and revision check of one file (lines 490-544).
ImageCheck(esp, argfile) ==
    LET image == argfile.img IN
    IF ~image.ok THEN NoErr
    ELSE IF image.chip_id # esp.IMAGE_CHIP_ID THEN Fatal("not an image of this chip")
    ELSE IF use_rev_full_fields(image)
         THEN LET rev == esp.chip_revision IN
              IF rev < image.min_rev_full \/ rev > image.max_rev_full
              THEN Fatal("requires chip revision in range")
              ELSE NoErr
         ELSE LET rev == IF esp.CHIP_NAME = "ESP32-C3"
                         THEN esp.minor_chip_version
                         ELSE esp.major_chip_version IN
              IF rev < image.min_rev
              THEN Fatal("requires chip revision or higher")
              ELSE NoErr

\* for _, argfile in addr_filename: the first file that fails decides (line 489)
RECURSIVE ImagesCheck(_, _, _)
ImagesCheck(esp, addr_filename, i) ==
    IF i > Len(addr_filename) THEN NoErr
    ELSE LET e == ImageCheck(esp, addr_filename[i].file) IN
         IF e # NoErr THEN e ELSE ImagesCheck(esp, addr_filename, i + 1)

\* The secure boot and image pre-flight (lines 477-544).
SecurityPreflight(esp, req) ==
    IF ~req.force /\ esp.CHIP_NAME # "ESP8266" /\ ~esp.secure_download_mode
    THEN IF /\ esp.secure_boot_enabled
            /\ \E i \in 1..Len(req.addr_filename) :
                   req.addr_filename[i].address < SECURE_BOOT_LIMIT
         THEN Fatal("Secure Boot detected")
         ELSE ImagesCheck(esp, req.addr_filename, 1)
    ELSE NoErr

\* bin(flash_crypt_cnt).count("1") & 1 != 0, for the eFuse's 7 bits
OddBits(n) ==
    ((n % 2) + ((n \div 2) % 2) + ((n \div 4) % 2) + ((n \div 8) % 2)
       + ((n \div 16) % 2) + ((n \div 32) % 2) + ((n \div 64) % 2)) % 2 = 1

\* esp.get_flash_encryption_enabled()
get_flash_encryption_enabled(esp) == OddBits(esp.flash_crypt_cnt)

\* files_to_encrypt = addr_filename if encrypt else encrypt_files (line 573)
files_to_encrypt(req) ==
    IF req.encrypt THEN req.addr_filename ELSE req.encrypt_files.files

\* Mutant of EncryptionPreflight: plaintext is not refused in secure download
\* mode.
EncryptionPreflight_NoDownloadModeGuard(esp, req) ==
    IF req.encrypt \/ req.encrypt_files.given
    THEN IF ~esp.secure_download_mode /\ esp.encrypted_download_disabled
         THEN Fatal("encrypt functionality in UART download mode disabled")
         ELSE LET efuse_ok ==
                      \/ esp.secure_download_mode
                      \/ /\ esp.flash_crypt_config \in {None, 15}
                         /\ esp.flash_encryption_key_valid
                  aligned ==
                      \A i \in 1..Len(files_to_encrypt(req)) :
                          files_to_encrypt(req)[i].address
                              % esp.FLASH_ENCRYPTED_WRITE_ALIGN = 0
                  do_write == efuse_ok /\ aligned
              IN IF ~do_write /\ ~req.ignore_flash_enc_efuse
                 THEN Fatal("Can't perform encrypted flash write")
                 ELSE NoErr
    ELSE IF ~req.force /\ esp.CHIP_NAME # "ESP8266"
         THEN IF /\ ~esp.secure_download_mode
                 /\ esp.encrypted_download_disabled
                 /\ get_flash_encryption_enabled(esp)
              THEN Fatal("flash encryption enabled and download manual encrypt disabled")
              ELSE NoErr
         ELSE NoErr

\* The sanity checks before an encrypted write, and the plaintext-on-encrypted
\* refusal otherwise (lines 548-616).
EncryptionPreflight(esp, req) ==
    IF req.encrypt \/ req.encrypt_files.given
    THEN IF ~esp.secure_download_mode /\ esp.encrypted_download_disabled
         THEN Fatal("encrypt functionality in UART download mode disabled")
         ELSE LET efuse_ok ==
                      \/ esp.secure_download_mode
                      \/ /\ esp.flash_crypt_config \in {None, 15}
                         /\ esp.flash_encryption_key_valid
                  aligned ==
                      \A i \in 1..Len(files_to_encrypt(req)) :
                          files_to_encrypt(req)[i].address
                              % esp.FLASH_ENCRYPTED_WRITE_ALIGN = 0
                  do_write == efuse_ok /\ aligned
              IN IF ~do_write /\ ~req.ignore_flash_enc_efuse
                 THEN Fatal("Can't perform encrypted flash write")
                 ELSE NoErr
    ELSE IF ~req.force /\ esp.CHIP_NAME # "ESP8266"
         THEN IF /\ esp.CHIP_NAME # "ESP32"
                 /\ esp.secure_download_mode
                 /\ OddBits(esp.flash_crypt_cnt)
              THEN Fatal("flash encryption and secure download mode enabled")
              ELSE IF /\ ~esp.secure_download_mode
                      /\ esp.encrypted_download_disabled
                      /\ get_flash_encryption_enabled(esp)
                   THEN Fatal("flash encryption enabled and download manual encrypt disabled")
                   ELSE NoErr
         ELSE NoErr

\* The flash size resolution and the containment check (lines 618-645):
\* [err, flash_size, flash_end].
GeometryPreflight(esp, req) ==
    LET p == _set_flash_parameters(esp, req.flash_size)
        flash_size == IF req.flash_size = "keep" THEN "keep" ELSE p.size
        set_flash_size == IF flash_size \notin {"detect", "keep"}
                          THEN flash_size_bytes(flash_size) ELSE None
        detected == flash_size_bytes(detect_flash_size(esp).size)
        truthy == set_flash_size # None /\ set_flash_size # 0
        flash_end == IF esp.secure_download_mode THEN set_flash_size
                     ELSE IF truthy THEN Min(set_flash_size, detected)
                     ELSE detected
        fits == \A i \in 1..Len(req.addr_filename) :
                    req.addr_filename[i].address
                        + Len(req.addr_filename[i].file.data) <= flash_end
    IN  IF p.err # NoErr
        THEN [err |-> p.err, flash_size |-> flash_size, flash_end |-> None]
        ELSE IF ~esp.secure_download_mode /\ truthy /\ detected = None
        THEN \* min(set_flash_size, None)
             [err |-> [exc |-> "TypeError", msg |-> "min(int, None)"],
              flash_size |-> flash_size, flash_end |-> None]
        ELSE IF flash_end # None /\ ~fits
        THEN [err |-> Fatal("will not fit in flash"),
              flash_size |-> flash_size, flash_end |-> flash_end]
        ELSE [err |-> NoErr, flash_size |-> flash_size, flash_end |-> flash_end]

(***************************************************************************)
(* _update_image_flash_params (lines 314-424).                             *)
(*                                                                         *)
(* The image layout it relies on: byte 0 the magic, byte 1 the segment     *)
(* count, byte 2 the flash mode, byte 3 flash size (high nibble) and       *)
(* frequency (low nibble), bytes 8..23 the extended header whose last byte *)
(* tells whether a digest is appended after the image data.                *)
(***************************************************************************)
\* esp.ESP_IMAGE_MAGIC
ESP_IMAGE_MAGIC == 233
\* image_object.SHA256_DIGEST_LEN, scaled down
SHA256_DIGEST_LEN == 2
\* header and extended header
IMAGE_HEADER_LEN == 24

\* FLASH_MODES[flash_mode]
FLASH_MODES(flash_mode) ==
    CASE flash_mode = "qio" -> 0
      [] flash_mode = "qout" -> 1
      [] flash_mode = "dio" -> 2
      [] flash_mode = "dout" -> 3

\* esp.parse_flash_freq_arg(flash_freq): the low nibble of byte 3
parse_flash_freq_arg(flash_freq) ==
    CASE flash_freq = "40m" -> 0
      [] flash_freq = "80m" -> 15

\* esp.parse_flash_size_arg(flash_size): the high nibble of byte 3
parse_flash_size_arg(flash_size) ==
    CASE flash_size = "1MB" -> 0
      [] flash_size = "2MB" -> 16
      [] flash_size = "4MB" -> 32

\* hashlib.sha256(data).digest(): SHA256_DIGEST_LEN bytes that depend on every
\* byte of data and on its position
SHA256(data) ==
    LET RECURSIVE Sum(_, _)
        Sum(i, k) == IF i > Len(data) THEN k
                     ELSE (data[i] * (i + k) + Sum(i + 1, k)) % 256
    IN  [k \in 1..SHA256_DIGEST_LEN |-> Sum(1, k)]

\* image_object.data_length: header, extended header and the segments' bytes,
\* one payload byte per segment of the header's count
ImageDataLength(image) == IMAGE_HEADER_LEN + image[2]

\* esp.BOOTLOADER_IMAGE(io.BytesIO(image)) loads and verify() passes
ImageVerifies(image) ==
    /\ Len(image) >= IMAGE_HEADER_LEN
    /\ image[2] \in 1..16
    /\ Len(image) >= ImageDataLength(image)
           + (IF image[IMAGE_HEADER_LEN] = 1 THEN SHA256_DIGEST_LEN ELSE 0)

\* Mutant of _update_image_flash_params: the first byte is not looked at.
_update_image_flash_params_NoMagic(esp, address, flash_freq, flash_mode, flash_size, image) ==
    IF Len(image) < 8 THEN image
    ELSE IF address # esp.BOOTLOADER_FLASH_OFFSET THEN image
    ELSE IF flash_mode = "keep" /\ flash_freq = "keep" /\ flash_size = "keep" THEN image
    ELSE IF ~ImageVerifies(image) THEN image
    ELSE
    LET sha_appended == image[8 + 15 + 1] = 1
        img_flash_mode == IF flash_mode # "keep" THEN FLASH_MODES(flash_mode)
                          ELSE image[3]
        img_flash_freq == IF flash_freq # "keep" THEN parse_flash_freq_arg(flash_freq)
                          ELSE image[4] % 16
        img_flash_size == IF flash_size # "keep" THEN parse_flash_size_arg(flash_size)
                          ELSE (image[4] \div 16) * 16
        flash_params == <<img_flash_mode, img_flash_size + img_flash_freq>>
        patched == Take(image, 2) \o flash_params \o Drop(image, 4)
    IN  IF sha_appended
        THEN LET n == ImageDataLength(patched)
                 image_data_before_sha == Take(patched, n)
                 image_data_after_sha == Drop(patched, n + SHA256_DIGEST_LEN)
             IN  image_data_before_sha \o SHA256(image_data_before_sha)
                     \o image_data_after_sha
        ELSE patched

\* Mutant of _update_image_flash_params: the frequency nibble is left out of the
\* parameter byte.
_update_image_flash_params_NoFreq(esp, address, flash_freq, flash_mode, flash_size, image) ==
    IF Len(image) < 8 THEN image
    ELSE IF address # esp.BOOTLOADER_FLASH_OFFSET THEN image
    ELSE IF flash_mode = "keep" /\ flash_freq = "keep" /\ flash_size = "keep" THEN image
    ELSE IF image[1] # ESP_IMAGE_MAGIC THEN image
    ELSE IF ~ImageVerifies(image) THEN image
    ELSE
    LET sha_appended == image[8 + 15 + 1] = 1
        img_flash_mode == IF flash_mode # "keep" THEN FLASH_MODES(flash_mode)
                          ELSE image[3]
        img_flash_freq == IF flash_freq # "keep" THEN parse_flash_freq_arg(flash_freq)
                          ELSE image[4] % 16
        img_flash_size == IF flash_size # "keep" THEN parse_flash_size_arg(flash_size)
                          ELSE (image[4] \div 16) * 16
        flash_params == <<img_flash_mode, img_flash_size>>
        patched == Take(image, 2) \o flash_params \o Drop(image, 4)
    IN  IF sha_appended
        THEN LET n == ImageDataLength(patched)
                 image_data_before_sha == Take(patched, n)
                 image_data_after_sha == Drop(patched, n + SHA256_DIGEST_LEN)
             IN  image_data_before_sha \o SHA256(image_data_before_sha)
                     \o image_data_after_sha
        ELSE patched

\* Mutant of _update_image_flash_params: the bytes after the digest are dropped.
_update_image_flash_params_NoTail(esp, address, flash_freq, flash_mode, flash_size, image) ==
    IF Len(image) < 8 THEN image
    ELSE IF address # esp.BOOTLOADER_FLASH_OFFSET THEN image
    ELSE IF flash_mode = "keep" /\ flash_freq = "keep" /\ flash_size = "keep" THEN image
    ELSE IF image[1] # ESP_IMAGE_MAGIC THEN image
    ELSE IF ~ImageVerifies(image) THEN image
    ELSE
    LET sha_appended == image[8 + 15 + 1] = 1
        img_flash_mode == IF flash_mode # "keep" THEN FLASH_MODES(flash_mode)
                          ELSE image[3]
        img_flash_freq == IF flash_freq # "keep" THEN parse_flash_freq_arg(flash_freq)
                          ELSE image[4] % 16
        img_flash_size == IF flash_size # "keep" THEN parse_flash_size_arg(flash_size)
                          ELSE (image[4] \div 16) * 16
        flash_params == <<img_flash_mode, img_flash_size + img_flash_freq>>
        patched == Take(image, 2) \o flash_params \o Drop(image, 4)
    IN  IF sha_appended
        THEN LET n == ImageDataLength(patched)
                 image_data_before_sha == Take(patched, n)
                 image_data_after_sha == <<>>
             IN  image_data_before_sha \o SHA256(image_data_before_sha)
                     \o image_data_after_sha
        ELSE patched

\* Mutant of _update_image_flash_params: the digest is not computed again.
_update_image_flash_params_StaleDigest(esp, address, flash_freq, flash_mode, flash_size, image) ==
    IF Len(image) < 8 THEN image
    ELSE IF address # esp.BOOTLOADER_FLASH_OFFSET THEN image
    ELSE IF flash_mode = "keep" /\ flash_freq = "keep" /\ flash_size = "keep" THEN image
    ELSE IF image[1] # ESP_IMAGE_MAGIC THEN image
    ELSE IF ~ImageVerifies(image) THEN image
    ELSE
    LET sha_appended == image[8 + 15 + 1] = 1
        img_flash_mode == IF flash_mode # "keep" THEN FLASH_MODES(flash_mode)
                          ELSE image[3]
        img_flash_freq == IF flash_freq # "keep" THEN parse_flash_freq_arg(flash_freq)
                          ELSE image[4] % 16
        img_flash_size == IF flash_size # "keep" THEN parse_flash_size_arg(flash_size)
                          ELSE (image[4] \div 16) * 16
        flash_params == <<img_flash_mode, img_flash_size + img_flash_freq>>
        patched == Take(image, 2) \o flash_params \o Drop(image, 4)
    IN  IF sha_appended /\ FALSE
        THEN LET n == ImageDataLength(patched)
                 image_data_before_sha == Take(patched, n)
                 image_data_after_sha == Drop(patched, n + SHA256_DIGEST_LEN)
             IN  image_data_before_sha \o SHA256(image_data_before_sha)
                     \o image_data_after_sha
        ELSE patched

\* Mutant of _update_image_flash_params: a size that is kept is written as 0.
_update_image_flash_params_SizeReset(esp, address, flash_freq, flash_mode, flash_size, image) ==
    IF Len(image) < 8 THEN image
    ELSE IF address # esp.BOOTLOADER_FLASH_OFFSET THEN image
    ELSE IF flash_mode = "keep" /\ flash_freq = "keep" /\ flash_size = "keep" THEN image
    ELSE IF image[1] # ESP_IMAGE_MAGIC THEN image
    ELSE IF ~ImageVerifies(image) THEN image
    ELSE
    LET sha_appended == image[8 + 15 + 1] = 1
        img_flash_mode == IF flash_mode # "keep" THEN FLASH_MODES(flash_mode)
                          ELSE image[3]
        img_flash_freq == IF flash_freq # "keep" THEN parse_flash_freq_arg(flash_freq)
                          ELSE image[4] % 16
        img_flash_size == IF flash_size # "keep" THEN parse_flash_size_arg(flash_size)
                          ELSE 0
        flash_params == <<img_flash_mode, img_flash_size + img_flash_freq>>
        patched == Take(image, 2) \o flash_params \o Drop(image, 4)
    IN  IF sha_appended
        THEN LET n == ImageDataLength(patched)
                 image_data_before_sha == Take(patched, n)
                 image_data_after_sha == Drop(patched, n + SHA256_DIGEST_LEN)
             IN  image_data_before_sha \o SHA256(image_data_before_sha)
                     \o image_data_after_sha
        ELSE patched

\* _update_image_flash_params (lines 337-424): the image it returns
_update_image_flash_params(esp, address, flash_freq, flash_mode, flash_size, image) ==
    IF Len(image) < 8 THEN image
    ELSE IF address # esp.BOOTLOADER_FLASH_OFFSET THEN image
    ELSE IF flash_mode = "keep" /\ flash_freq = "keep" /\ flash_size = "keep" THEN image
    ELSE IF image[1] # ESP_IMAGE_MAGIC THEN image
    ELSE IF ~ImageVerifies(image) THEN image
    ELSE
    LET sha_appended == image[8 + 15 + 1] = 1
        img_flash_mode == IF flash_mode # "keep" THEN FLASH_MODES(flash_mode)
                          ELSE image[3]
        img_flash_freq == IF flash_freq # "keep" THEN parse_flash_freq_arg(flash_freq)
                          ELSE image[4] % 16
        img_flash_size == IF flash_size # "keep" THEN parse_flash_size_arg(flash_size)
                          ELSE (image[4] \div 16) * 16
        flash_params == <<img_flash_mode, img_flash_size + img_flash_freq>>
        patched == Take(image, 2) \o flash_params \o Drop(image, 4)
    IN  IF sha_appended
        THEN LET n == ImageDataLength(patched)
                 image_data_before_sha == Take(patched, n)
                 image_data_after_sha == Drop(patched, n + SHA256_DIGEST_LEN)
             IN  image_data_before_sha \o SHA256(image_data_before_sha)
                     \o image_data_after_sha
        ELSE patched

(***************************************************************************)
(* write_flash: the list of tasks and the image of one task (lines 684-742)*)
(***************************************************************************)
\* sorted(list, key=lambda x: x[0]): Python's stable sort, by insertion
RECURSIVE SortedByAddress(_)
SortedByAddress(list) ==
    IF list = <<>> THEN <<>>
    ELSE LET rest == SortedByAddress(Take(list, Len(list) - 1))
             x == list[Len(list)]
             k == Cardinality({i \in 1..Len(rest) : rest[i].address <= x.address})
         IN  Take(rest, k) \o <<x>> \o Drop(rest, k)

\* [(offs, filename, flag) for (offs, filename) in list]
Flagged(list, flag) ==
    [i \in 1..Len(list) |->
        [address |-> list[i].address, file |-> list[i].file, encrypted |-> flag]]

\* all_files (lines 684-699): sorted only when encrypt_files is given
AllFiles(req) ==
    IF req.encrypt_files.given
    THEN SortedByAddress(Flagged(req.addr_filename, req.encrypt)
                             \o Flagged(req.encrypt_files.files, TRUE))
    ELSE Flagged(req.addr_filename, req.encrypt)

\* Mutant of PreparedTask: the header is patched whatever the security state.
PreparedTask_AlwaysPatch(esp, req, flash_size, compress, entry) ==
    LET encrypted == entry.encrypted
        padded == pad_to(entry.file.data,
                         IF encrypted THEN esp.FLASH_ENCRYPTED_WRITE_ALIGN ELSE 4)
        bytes_over == IF ~esp.IS_STUB THEN entry.address % FLASH_SECTOR_SIZE ELSE 0
        address == entry.address - bytes_over
        image == _update_image_flash_params(
                     esp, address, req.flash_freq, req.flash_mode, flash_size,
                     Fill(bytes_over) \o padded)
        sent == IF compress THEN Compress(image) ELSE image
    IN  [address |-> address, encrypted |-> encrypted,
         calcmd5 |-> MD5(image), uncsize |-> Len(image),
         image |-> sent, original_image |-> sent,
         attempt |-> 1, seq |-> 0, tries |-> 0, was_stub |-> FALSE,
         begins |-> 0]

\* Mutant of PreparedTask: the address is rounded down but no 0xFF bytes are put
\* before the image.
PreparedTask_NoFill(esp, req, flash_size, compress, entry) ==
    LET encrypted == entry.encrypted
        padded == pad_to(entry.file.data,
                         IF encrypted THEN esp.FLASH_ENCRYPTED_WRITE_ALIGN ELSE 4)
        bytes_over == IF ~esp.IS_STUB THEN entry.address % FLASH_SECTOR_SIZE ELSE 0
        address == entry.address - bytes_over
        aligned == padded
        image == IF ~esp.secure_download_mode /\ ~esp.secure_boot_enabled
                 THEN _update_image_flash_params(
                          esp, address, req.flash_freq, req.flash_mode, flash_size,
                          aligned)
                 ELSE aligned
        sent == IF compress THEN Compress(image) ELSE image
    IN  [address |-> address, encrypted |-> encrypted,
         calcmd5 |-> MD5(image), uncsize |-> Len(image),
         image |-> sent, original_image |-> sent,
         attempt |-> 1, seq |-> 0, tries |-> 0, was_stub |-> FALSE,
         begins |-> 0]

\* The image sent for one entry of all_files (lines 717-742), with the address it
\* is written at and the hash and size kept for verification.
PreparedTask(esp, req, flash_size, compress, entry) ==
    LET encrypted == entry.encrypted
        padded == pad_to(entry.file.data,
                         IF encrypted THEN esp.FLASH_ENCRYPTED_WRITE_ALIGN ELSE 4)
        bytes_over == IF ~esp.IS_STUB THEN entry.address % FLASH_SECTOR_SIZE ELSE 0
        address == entry.address - bytes_over
        aligned == Fill(bytes_over) \o padded
        image == IF ~esp.secure_download_mode /\ ~esp.secure_boot_enabled
                 THEN _update_image_flash_params(
                          esp, address, req.flash_freq, req.flash_mode, flash_size,
                          aligned)
                 ELSE aligned
        sent == IF compress THEN Compress(image) ELSE image
    IN  [address |-> address, encrypted |-> encrypted,
         calcmd5 |-> MD5(image), uncsize |-> Len(image),
         image |-> sent, original_image |-> sent,
         attempt |-> 1, seq |-> 0, tries |-> 0, was_stub |-> FALSE,
         begins |-> 0]

(***************************************************************************)
(* State.                                                                  *)
(***************************************************************************)
VARIABLES
    esp,        \* the session: ESPLoader attributes, eFuse answers, esp._port
    device,     \* what runs on the chip ("rom" or "stub"), how it answers md5
    req,        \* write_flash's arguments
    pc,         \* where write_flash is
    err,        \* the exception write_flash raised, NoErr while none
    compress,   \* the local variable compress
    flash_size, \* the local variable flash_size after _set_flash_parameters
    all_files,  \* the local variable all_files
    idx,        \* index in all_files of the task of the for loop (line 701)
    task,       \* the locals of the current task's transfer
    wire,       \* the calls made on the session and its port, in order
    faults      \* SerialExceptions the transport may still raise in a transfer
                \* (Unlimited: it may raise one at every call)

vars == <<esp, device, req, pc, err, compress, flash_size, all_files, idx, task,
          wire, faults>>

NoTask == [address |-> 0, encrypted |-> FALSE, calcmd5 |-> MD5(<<>>), uncsize |-> 0,
           image |-> <<>>, original_image |-> <<>>,
           attempt |-> 0, seq |-> 0, tries |-> 0, was_stub |-> FALSE,
           begins |-> 0]

\* One entry of the log.
Call(op, addr, n, data) == [op |-> op, addr |-> addr, n |-> n, data |-> data]

Raise(e) == /\ pc' = "raised"
            /\ err' = e

(***************************************************************************)
(* write_flash, step by step.                                              *)
(***************************************************************************)
\* Lines 471-645: the three pre-flights; either one raises or write_flash goes on.
Preflight ==
    /\ pc = "preflight"
    /\ LET s == SecurityPreflight(esp, req)
           e == EncryptionPreflight(esp, req)
           g == GeometryPreflight(esp, req)
       IN  /\ compress' = DefaultCompress(esp, req)
           /\ IF s # NoErr THEN Raise(s) /\ UNCHANGED flash_size
              ELSE IF e # NoErr THEN Raise(e) /\ UNCHANGED flash_size
              ELSE IF g.err # NoErr THEN Raise(g.err) /\ UNCHANGED flash_size
              ELSE /\ pc' = "erase"
                   /\ flash_size' = g.flash_size
                   /\ UNCHANGED err
    /\ UNCHANGED <<esp, device, req, all_files, idx, task, wire, faults>>

\* Mutant of EraseRefused: erase_flash never refuses.
EraseRefused_Never(e) == FALSE

\* erase_flash(esp) as write_flash calls it, force left at its default (lines
\* 1125-1149): refuses on active security features.
EraseRefused(e) ==
    /\ e.CHIP_NAME # "ESP8266"
    /\ ~e.secure_download_mode
    /\ (get_flash_encryption_enabled(e) \/ e.secure_boot_enabled)

\* Lines 647-699: the whole-chip erase when erase_all is set, then all_files.
EraseAndList ==
    /\ pc = "erase"
    /\ IF req.erase_all /\ EraseRefused(esp)
       THEN /\ Raise(Fatal("Active security features detected"))
            /\ UNCHANGED <<wire, all_files, idx>>
       ELSE /\ wire' = IF req.erase_all
                       THEN Append(wire, Call("erase_flash", 0, 0, <<>>))
                       ELSE wire
            /\ all_files' = AllFiles(req)
            /\ idx' = 1
            /\ pc' = "next_task"
            /\ UNCHANGED err
    /\ UNCHANGED <<esp, device, req, compress, flash_size, task, faults>>

\* Lines 701-742: the head of the for loop, up to original_image = image.
\* An empty file is skipped; compress stays off once an encrypted task cleared it.
NextTask ==
    /\ pc = "next_task"
    /\ idx <= Len(all_files)
    /\ LET entry == all_files[idx]
           c == compress /\ ~entry.encrypted
       IN  /\ compress' = c
           /\ IF Len(entry.file.data) = 0
              THEN /\ idx' = idx + 1
                   /\ UNCHANGED <<pc, task>>
              ELSE /\ task' = PreparedTask(esp, req, flash_size, c, entry)
                   /\ pc' = "begin"
                   /\ UNCHANGED idx
    /\ UNCHANGED <<esp, device, req, err, flash_size, all_files, wire, faults>>

\* Lines 746-763: the begin command of an attempt.
FlashBegin ==
    /\ pc = "begin"
    /\ wire' = Append(wire,
                      IF compress
                      THEN Call("flash_defl_begin", task.address, task.uncsize, <<>>)
                      ELSE Call("flash_begin", task.address, task.uncsize, <<>>))
    /\ task' = [task EXCEPT !.seq = 0, !.begins = @ + 1]
    /\ pc' = "blocks"
    /\ UNCHANGED <<esp, device, req, err, compress, flash_size, all_files, idx, faults>>

\* Mutant of FlashBlock: the last block is sent as short as it is.
FlashBlock_NoPad ==
    /\ pc = "blocks"
    /\ Len(task.image) > 0
    /\ LET block == Take(task.image, FLASH_WRITE_SIZE)
           rest == Drop(task.image, FLASH_WRITE_SIZE)
           call == IF compress
                   THEN Call("flash_defl_block", 0, task.seq, block)
                   ELSE Call(IF task.encrypted THEN "flash_encrypt_block"
                             ELSE "flash_block",
                             0, task.seq, block)
       IN  /\ wire' = Append(wire, call)
           /\ task' = [task EXCEPT !.image = rest, !.seq = @ + 1]
           /\ pc' = IF Len(rest) > 0 THEN "blocks" ELSE "post_task"
    /\ UNCHANGED <<esp, device, req, err, compress, flash_size, all_files, idx, faults>>

\* Lines 765-804: one data block; after the last one the attempt loop is left.
FlashBlock ==
    /\ pc = "blocks"
    /\ Len(task.image) > 0
    /\ LET block == Take(task.image, FLASH_WRITE_SIZE)
           rest == Drop(task.image, FLASH_WRITE_SIZE)
           call == IF compress
                   THEN Call("flash_defl_block", 0, task.seq, block)
                   ELSE Call(IF task.encrypted THEN "flash_encrypt_block"
                             ELSE "flash_block",
                             0, task.seq,
                             block \o Fill(FLASH_WRITE_SIZE - Len(block)))
       IN  /\ wire' = Append(wire, call)
           /\ task' = [task EXCEPT !.image = rest, !.seq = @ + 1]
           /\ pc' = IF Len(rest) > 0 THEN "blocks" ELSE "post_task"
    /\ UNCHANGED <<esp, device, req, err, compress, flash_size, all_files, idx, faults>>

\* Mutants of GiveUp: an encrypted task is retried like any other; the attempt
\* count is not looked at.
GiveUp_IgnoresEncrypted(attempt, encrypted) == attempt = WRITE_FLASH_ATTEMPTS
GiveUp_OnlyEncrypted(attempt, encrypted) == encrypted

\* if attempt == esp.WRITE_FLASH_ATTEMPTS or encrypted: raise (line 806)
GiveUp(attempt, encrypted) == attempt = WRITE_FLASH_ATTEMPTS \/ encrypted

\* Lines 805-812: the begin or block call raises SerialException; the handler
\* re-raises it or closes the port and enters the reconnect loop.
Disconnect ==
    /\ pc \in {"begin", "blocks"}
    /\ faults # 0
    /\ faults' = IF faults = Unlimited THEN Unlimited ELSE faults - 1
    /\ IF GiveUp(task.attempt, task.encrypted)
       THEN /\ Raise([exc |-> "SerialException", msg |-> "lost connection"])
            /\ UNCHANGED <<esp, wire, task>>
       ELSE /\ esp' = [esp EXCEPT !.port_open = FALSE]
            /\ wire' = Append(wire, Call("close", 0, 0, <<>>))
            /\ task' = [task EXCEPT !.tries = 0, !.was_stub = esp.IS_STUB]
            /\ pc' = "reconnect"
            /\ UNCHANGED err
    /\ UNCHANGED <<device, req, compress, flash_size, all_files, idx>>

\* Mutant of NeedsStubReflash: the stub is not loaded again.
NeedsStubReflash_Never(e) == FALSE

\* if esp.IS_STUB: (line 819) the stub is reflashed after the reconnect
NeedsStubReflash(e) == e.IS_STUB

\* Mutant of RetryImage: the retry goes on from what was left to send.
RetryImage_Partial(t) == t.image

\* image = original_image (line 824)
RetryImage(t) == t.original_image

\* for _ in range(DEFAULT_CONNECT_ATTEMPTS): the loop is over after this many
\* failed iterations (lines 813, 828-829)
ReconnectExhausted(tries) == tries >= DEFAULT_CONNECT_ATTEMPTS

\* What one iteration of the reconnect loop can come to.  Serial.open() raises
\* SerialException("Port is already open.") on an open port; otherwise open(),
\* connect() and run_stub() each return or raise.
ReconnectOutcomes(e) ==
    IF e.port_open THEN {"open_raises"}
    ELSE {"open_raises", "connect_raises", "connect_fatal", "ok"}
             \cup (IF NeedsStubReflash(e)
                   THEN {"run_stub_raises", "run_stub_fatal"} ELSE {})

\* Lines 813-829: one iteration of the reconnect loop.
ReconnectPoll ==
    /\ pc = "reconnect"
    /\ \E o \in ReconnectOutcomes(esp) :
        LET opened == o # "open_raises"
            connected == o \notin {"open_raises", "connect_raises", "connect_fatal"}
            reflash == connected /\ NeedsStubReflash(esp)
            calls == <<Call("open", 0, IF opened THEN 1 ELSE 0, <<>>)>>
                       \o (IF opened
                           THEN <<Call("connect", 0, IF connected THEN 1 ELSE 0, <<>>)>>
                           ELSE <<>>)
                       \o (IF reflash
                           THEN <<Call("run_stub", 0, IF o = "ok" THEN 1 ELSE 0, <<>>)>>
                           ELSE <<>>)
            \* esp.IS_STUB = False before run_stub(); the object run_stub() returns
            \* is a stub session again
            is_stub == IF reflash THEN o = "ok" ELSE esp.IS_STUB
        IN  /\ wire' = wire \o calls
            /\ esp' = [esp EXCEPT !.port_open = @ \/ opened, !.IS_STUB = is_stub]
            /\ device' = IF connected
                         THEN [device EXCEPT
                                  !.running = IF reflash /\ o = "ok"
                                              THEN "stub" ELSE "rom"]
                         ELSE device
            /\ CASE o = "ok" ->
                      \* break: the next attempt of the for loop, if there is one
                      /\ task' = [task EXCEPT !.image = RetryImage(task),
                                              !.attempt = @ + 1]
                      /\ pc' = IF task.attempt + 1 <= WRITE_FLASH_ATTEMPTS
                               THEN "begin" ELSE "post_task"
                      /\ UNCHANGED err
                 [] o \in {"connect_fatal", "run_stub_fatal"} ->
                      /\ Raise(Fatal(o))
                      /\ UNCHANGED task
                 [] OTHER ->
                      \* except SerialException: next iteration, or the loop's
                      \* else clause re-raises the disconnect
                      IF ReconnectExhausted(task.tries + 1)
                      THEN /\ Raise([exc |-> "SerialException",
                                     msg |-> "lost connection"])
                           /\ task' = [task EXCEPT !.tries = @ + 1]
                      ELSE /\ task' = [task EXCEPT !.tries = @ + 1]
                           /\ UNCHANGED <<pc, err>>
    /\ UNCHANGED <<req, compress, flash_size, all_files, idx, faults>>

\* esp.flash_md5sum(address, uncsize) as this device answers it
DeviceMd5(t) ==
    CASE device.md5 = "stored" -> t.calcmd5
      [] device.md5 = "empty" -> MD5(Fill(t.uncsize))
      [] OTHER -> MD5(<<>>)

\* Mutant of PostTask: the register read after the last block is left out.
PostTask_NoRegRead ==
    /\ pc = "post_task"
    /\ LET verify == ~task.encrypted /\ ~esp.secure_download_mode
           answered == verify /\ device.md5 # "unsupported"
           res == DeviceMd5(task)
       IN  /\ wire' = wire
                \o (IF verify
                    THEN <<Call("flash_md5sum", task.address, task.uncsize, <<>>)>>
                    ELSE <<>>)
           /\ IF answered /\ res # task.calcmd5
              THEN /\ Raise(Fatal("MD5 of file does not match data in flash"))
                   /\ UNCHANGED idx
              ELSE /\ idx' = idx + 1
                   /\ pc' = "next_task"
                   /\ UNCHANGED err
    /\ UNCHANGED <<esp, device, req, compress, flash_size, all_files, task, faults>>

\* Lines 831-874: the stub's final register read and the hash verification.
PostTask ==
    /\ pc = "post_task"
    /\ LET verify == ~task.encrypted /\ ~esp.secure_download_mode
           answered == verify /\ device.md5 # "unsupported"
           res == DeviceMd5(task)
       IN  /\ wire' = wire
                \o (IF esp.IS_STUB THEN <<Call("read_reg", 0, 0, <<>>)>> ELSE <<>>)
                \o (IF verify
                    THEN <<Call("flash_md5sum", task.address, task.uncsize, <<>>)>>
                    ELSE <<>>)
           /\ IF answered /\ res # task.calcmd5
              THEN /\ Raise(IF res = MD5(Fill(task.uncsize))
                            THEN Fatal("the written flash region is empty")
                            ELSE Fatal("MD5 of file does not match data in flash"))
                   /\ UNCHANGED idx
              ELSE /\ idx' = idx + 1
                   /\ pc' = "next_task"
                   /\ UNCHANGED err
    /\ UNCHANGED <<esp, device, req, compress, flash_size, all_files, task, faults>>

\* Mutant of Finish: the finish command is sent to the boot ROM as well.
Finish_RomToo ==
    /\ pc = "next_task"
    /\ idx > Len(all_files)
    /\ all_files # <<>>
    /\ wire' = wire \o <<Call("flash_begin", 0, 0, <<>>),
                         Call(IF compress /\ ~all_files[Len(all_files)].encrypted
                              THEN "flash_defl_finish" ELSE "flash_finish",
                              0, 0, <<>>)>>
    /\ pc' = "done"
    /\ UNCHANGED <<esp, device, req, err, compress, flash_size, all_files, idx, task,
                   faults>>

\* Lines 876-890: after the loop, the finish command under the stub.
Finish ==
    /\ pc = "next_task"
    /\ idx > Len(all_files)
    /\ IF esp.IS_STUB /\ all_files = <<>>
       THEN \* all_files[-1] of an empty list
            /\ Raise([exc |-> "IndexError", msg |-> "all_files[-1]"])
            /\ wire' = Append(wire, Call("flash_begin", 0, 0, <<>>))
       ELSE /\ wire' = wire
                \o (IF esp.IS_STUB
                    THEN <<Call("flash_begin", 0, 0, <<>>),
                           Call(IF compress /\ ~all_files[Len(all_files)].encrypted
                                THEN "flash_defl_finish" ELSE "flash_finish",
                                0, 0, <<>>)>>
                    ELSE <<>>)
            /\ pc' = "done"
            /\ UNCHANGED err
    /\ UNCHANGED <<esp, device, req, compress, flash_size, all_files, idx, task, faults>>

(***************************************************************************)
(* The requests, sessions and devices of the model.                        *)
(***************************************************************************)
NoImage == [ok |-> FALSE, chip_id |-> 0, min_rev |-> 0, min_rev_full |-> 0,
            max_rev_full |-> 0]
File(name, data, img) == [name |-> name, data |-> data, img |-> img]
Ramp(n) == [i \in 1..n |-> i]
Data(name, n) == File(name, Ramp(n), NoImage)
Task(address, file) == [address |-> address, file |-> file]
NoFiles == [given |-> FALSE, files |-> <<>>]
Given(files) == [given |-> TRUE, files |-> files]

\* The per-chip attributes of the session's ROM class that the commands read.
ChipProfile(name) ==
    CASE name = "ESP8266" ->
           [CHIP_NAME |-> name, FLASH_ENCRYPTED_WRITE_ALIGN |-> 16,
            IMAGE_CHIP_ID |-> None, BOOTLOADER_FLASH_OFFSET |-> 0]
      [] name = "ESP32" ->
           [CHIP_NAME |-> name, FLASH_ENCRYPTED_WRITE_ALIGN |-> 32,
            IMAGE_CHIP_ID |-> 0, BOOTLOADER_FLASH_OFFSET |-> 4096]
      [] name = "ESP32-C3" ->
           [CHIP_NAME |-> name, FLASH_ENCRYPTED_WRITE_ALIGN |-> 16,
            IMAGE_CHIP_ID |-> 5, BOOTLOADER_FLASH_OFFSET |-> 0]

\* A connected session on a chip with no security feature active and 4MB of flash.
PlainEsp(name, is_stub) ==
    LET p == ChipProfile(name) IN
    [CHIP_NAME |-> p.CHIP_NAME,
     FLASH_ENCRYPTED_WRITE_ALIGN |-> p.FLASH_ENCRYPTED_WRITE_ALIGN,
     IMAGE_CHIP_ID |-> p.IMAGE_CHIP_ID,
     BOOTLOADER_FLASH_OFFSET |-> p.BOOTLOADER_FLASH_OFFSET,
     IS_STUB |-> is_stub,
     secure_download_mode |-> FALSE,
     secure_boot_enabled |-> FALSE,
     flash_crypt_cnt |-> 0,
     encrypted_download_disabled |-> FALSE,
     flash_crypt_config |-> 15,
     flash_encryption_key_valid |-> TRUE,
     flash_size_id |-> 22,
     chip_revision |-> 301,
     major_chip_version |-> 3,
     minor_chip_version |-> 1,
     port_open |-> TRUE]

\* write_flash(esp, addr_filename) with every other argument at its default.
PlainReq(addr_filename) ==
    [addr_filename |-> addr_filename,
     flash_freq |-> "keep", flash_mode |-> "keep", flash_size |-> "keep",
     erase_all |-> FALSE, encrypt |-> FALSE, encrypt_files |-> NoFiles,
     compress |-> FALSE, no_compress |-> FALSE, force |-> FALSE,
     ignore_flash_enc_efuse |-> FALSE]

Case(e, r, md5, f) == [esp |-> e, req |-> r, md5 |-> md5, faults |-> f]

\* compress and no_compress: neither, the one, the other
CompressArgs == {<<FALSE, FALSE>>, <<TRUE, FALSE>>, <<FALSE, TRUE>>}

\* One task on a transport that may fail at every call: a file of one to three
\* blocks at an aligned or an unaligned address, or one encrypted file.
StormCases ==
    { Case(PlainEsp("ESP32-C3", stub),
           [PlainReq(r[1]) EXCEPT !.encrypt_files = r[2], !.compress = c[1],
                                  !.no_compress = c[2]],
           "stored", Unlimited) :
        stub \in BOOLEAN, c \in CompressArgs,
        r \in { <<<<Task(4096, Data("a", 9))>>, NoFiles>>,
                <<<<Task(4098, Data("b", 5))>>, NoFiles>>,
                <<<<>>, Given(<<Task(8192, Data("e", 3))>>)>> } }

\* Two or three tasks, in and out of address order, with and without an encrypted
\* file, on a transport that fails up to MaxFaults times.
RetryCases ==
    { Case(PlainEsp("ESP32-C3", stub),
           [PlainReq(af) EXCEPT !.encrypt_files = ef, !.compress = c[1],
                                !.no_compress = c[2]],
           "stored", MaxFaults) :
        stub \in BOOLEAN, c \in CompressArgs,
        af \in { <<Task(36864, Data("c", 3)), Task(4096, Data("b", 5))>>,
                 <<Task(4096, Data("b", 5)), Task(36864, Data("c", 3))>> },
        ef \in {NoFiles, Given(<<Task(8192, Data("e", 3))>>)} }

\* Encrypted writes: the eFuse state, the alignment of the files to encrypt and
\* ignore_flash_enc_efuse vary.
EncryptCases ==
    { Case([PlainEsp(chip, FALSE) EXCEPT
               !.secure_download_mode = d[1],
               !.encrypted_download_disabled = d[2],
               !.flash_crypt_config = d[3],
               !.flash_encryption_key_valid = d[4]],
           [PlainReq(af) EXCEPT !.encrypt = r[1], !.encrypt_files = ef,
                                !.ignore_flash_enc_efuse = r[2]],
           "stored", 1) :
        chip \in {"ESP32", "ESP32-C3"},
        d \in BOOLEAN \X BOOLEAN \X {15, 5} \X BOOLEAN,
        r \in BOOLEAN \X BOOLEAN,
        af \in { <<>>, <<Task(8192, Data("a", 3))>>, <<Task(8196, Data("b", 3))>> },
        ef \in { NoFiles, Given(<<Task(12288, Data("e", 3))>>),
                 Given(<<Task(12292, Data("f", 3))>>) } }

\* Plaintext and mixed writes on chips with security features: secure boot, flash
\* encryption, secure download mode, force and erase_all vary.
SecurityCases ==
    { Case([PlainEsp(chip, FALSE) EXCEPT
               !.secure_download_mode = d[1],
               !.secure_boot_enabled = d[2],
               !.encrypted_download_disabled = d[3],
               !.flash_crypt_cnt = d[4]],
           [PlainReq(af) EXCEPT !.force = r[1], !.erase_all = r[2],
                                !.encrypt_files = ef],
           "stored", 0) :
        chip \in {"ESP8266", "ESP32", "ESP32-C3"},
        d \in BOOLEAN \X BOOLEAN \X BOOLEAN \X {0, 1, 3},
        r \in BOOLEAN \X BOOLEAN,
        af \in { <<Task(4096, Data("a", 3))>>, <<Task(36864, Data("b", 3))>> },
        ef \in { NoFiles, Given(<<Task(8192, Data("e", 3))>>),
                 Given(<<Task(65536, Data("f", 3))>>) } }

\* Files that parse as firmware images: chip id and the legacy and extended
\* revision fields vary, against chips of two revisions.
Images ==
    { [ok |-> TRUE, chip_id |-> i[1], min_rev |-> i[2], min_rev_full |-> i[3],
       max_rev_full |-> i[4]] :
        i \in {0, 5} \X {0, 2} \X {0, 200} \X {0, 199, 399, MAX_REV_DEFAULT} }

ImageCases ==
    { Case([PlainEsp(chip, FALSE) EXCEPT
               !.chip_revision = v[1], !.major_chip_version = v[2],
               !.minor_chip_version = v[3]],
           [PlainReq(IF second
                     THEN <<Task(36864, Data("d", 3)),
                            Task(65536, File("i", Ramp(3), img))>>
                     ELSE <<Task(65536, File("i", Ramp(3), img))>>)
               EXCEPT !.force = force],
           "stored", 0) :
        chip \in {"ESP32", "ESP32-C3"},
        v \in {<<103, 1, 3>>, <<200, 2, 0>>},
        img \in Images, second \in BOOLEAN, force \in BOOLEAN }

\* Flash geometry: the flash_size argument, the size the flash id maps to and
\* tasks that end before, at and after the end of the flash vary.  (Under the
\* stub, so that an address near the end of the flash is not rounded down to its
\* sector and the image stays short.)
MB == 1024 * 1024

GeometryCases ==
    { Case([PlainEsp("ESP32-C3", TRUE) EXCEPT
               !.secure_download_mode = sdm, !.flash_size_id = id],
           [PlainReq(af) EXCEPT !.flash_size = fs, !.encrypt_files = ef,
                                !.no_compress = TRUE],
           "stored", 0) :
        sdm \in BOOLEAN, id \in {20, 22, 0},
        fs \in {"keep", "detect", "1MB", "4MB"},
        af \in { <<>>, <<Task(4096, Data("a", 3))>>,
                 <<Task(MB - 4, Data("b", 3))>>, <<Task(MB - 4, Data("c", 6))>> },
        ef \in { NoFiles, Given(<<Task(MB - 16, Data("e", 3))>>),
                 Given(<<Task(4 * MB - 16, Data("f", 20))>>) } }

\* Devices whose hash of the written region matches, is that of an erased region,
\* is something else, or that do not know the command; an empty file.
VerifyCases ==
    { Case(PlainEsp("ESP32", stub),
           PlainReq(<<Task(4096, Data("a", 5)), Task(8192, Data("z", n))>>),
           md5, 0) :
        stub \in BOOLEAN, n \in {0, 3},
        md5 \in {"stored", "empty", "other", "unsupported"} }

\* A bootloader image of one segment: magic, segment count, flash mode dio,
\* flash size and frequency, the rest of the header, the extended header whose
\* last byte says whether a digest follows, one byte of payload, the digest.
BootImage(sha) ==
    LET body == <<ESP_IMAGE_MAGIC, 1, 2, 32>> \o [i \in 1..(IMAGE_HEADER_LEN - 5) |-> 0]
                    \o <<sha, 7>>
    IN  IF sha = 1 THEN body \o SHA256(body) ELSE body

\* A bootloader image written at the bootloader offset, under force: the flash
\* parameters asked for, secure boot, secure download mode and the digest vary.
PatchCases ==
    { Case([PlainEsp(chip, stub) EXCEPT
               !.secure_download_mode = d[1], !.secure_boot_enabled = d[2]],
           [PlainReq(<<Task(ChipProfile(chip).BOOTLOADER_FLASH_OFFSET,
                            File("boot", BootImage(sha), NoImage))>>)
               EXCEPT !.force = TRUE, !.flash_mode = p[1], !.flash_freq = p[2],
                      !.flash_size = p[3], !.no_compress = nc],
           "stored", 0) :
        chip \in {"ESP32", "ESP32-C3"}, stub \in BOOLEAN, nc \in BOOLEAN,
        d \in BOOLEAN \X BOOLEAN, sha \in {0, 1},
        p \in {"keep", "qio"} \X {"keep", "80m"} \X {"keep", "2MB"} }

\* Two files of one flash sector in one request, with and without the stub.
SectorCases ==
    { Case(PlainEsp("ESP32-C3", stub),
           PlainReq(<<Task(4096, Data("a", 3)), Task(4104, Data("b", 3))>>),
           "stored", 0) :
        stub \in BOOLEAN }

Cases ==
    StormCases \cup RetryCases \cup EncryptCases \cup SecurityCases
        \cup ImageCases \cup GeometryCases \cup VerifyCases \cup PatchCases
        \cup SectorCases

\* write_flash is called with one of the cases C.
InitOf(C) ==
    \E c \in C :
        /\ esp = c.esp
        /\ device = [running |-> IF c.esp.IS_STUB THEN "stub" ELSE "rom",
                     md5 |-> c.md5]
        /\ req = c.req
        /\ faults = c.faults
        /\ pc = "preflight"
        /\ err = NoErr
        /\ compress = FALSE
        /\ flash_size = c.req.flash_size
        /\ all_files = <<>>
        /\ idx = 0
        /\ task = NoTask
        /\ wire = <<>>

Init == InitOf(Cases)

Next ==
    \/ Preflight
    \/ EraseAndList
    \/ NextTask
    \/ FlashBegin
    \/ FlashBlock
    \/ Disconnect
    \/ ReconnectPoll
    \/ PostTask
    \/ Finish

Spec == Init /\ [][Next]_vars

(***************************************************************************)
(* Reading the log.                                                        *)
(***************************************************************************)
\* The begin command of a transfer (the flash_begin(0, 0) before the finish
\* command declares no size).
IsBegin(c) == c.op \in {"flash_begin", "flash_defl_begin"} /\ c.n > 0
IsBlock(c) == c.op \in {"flash_block", "flash_defl_block", "flash_encrypt_block"}
IsErase(c) == c.op = "erase_flash"
IsOpen(c) == c.op = "open"
IsClose(c) == c.op = "close"
IsConnect(c) == c.op = "connect"
IsStubLoaded(c) == c.op = "run_stub" /\ c.n = 1

\* The index of the last entry of the log that P holds of, 0 when there is none.
LastIdx(P(_)) ==
    LET S == {j \in 1..Len(wire) : P(wire[j])} IN
    IF S = {} THEN 0 ELSE CHOOSE j \in S : \A k \in S : k <= j

\* The bytes of a sequence of block commands, in order.
RECURSIVE Payload(_)
Payload(blocks) ==
    IF blocks = <<>> THEN <<>> ELSE Head(blocks).data \o Payload(Tail(blocks))

\* Nothing was erased or written.
FlashUntouched == \A j \in 1..Len(wire) : ~(IsErase(wire[j]) \/ IsBegin(wire[j]) \/ IsBlock(wire[j]))

\* write_flash is over.
Terminated == pc \in {"done", "raised"}

(***************************************************************************)
(* C1.  A non-encrypted task whose transfer was interrupted and whose      *)
(* reconnect succeeded is sent again from its begin command: when the      *)
(* attempt that succeeds is over, the blocks sent since its begin command  *)
(* are numbered from 0 and carry exactly the whole image of the task       *)
(* (padded, patched, compressed if so), followed only by the 0xFF padding  *)
(* of the last block.                                                      *)
(***************************************************************************)
C1_RetryDeliversWholeImage ==
    (pc = "post_task" /\ ~task.encrypted) =>
        LET k == LastIdx(IsBegin)
            blocks == SubSeq(wire, k + 1, Len(wire))
            whole == PreparedTask(esp, req, flash_size, compress,
                                  all_files[idx]).original_image
            sent == Payload(blocks)
        IN  /\ k > 0
            /\ wire[k].addr = task.address
            /\ wire[k].n = task.uncsize
            /\ \A i \in 1..Len(blocks) : IsBlock(blocks[i]) /\ blocks[i].n = i - 1
            /\ task.original_image = whole
            /\ Take(sent, Len(whole)) = whole
            /\ Drop(sent, Len(whole)) = Fill(Len(sent) - Len(whole))
            /\ Len(sent) - Len(whole) < FLASH_WRITE_SIZE

\* A retry after a disconnect that followed a block has completed.
C1_Witness ==
    /\ pc = "post_task"
    /\ ~task.encrypted
    /\ task.attempt > 1
    /\ \E j \in 2..Len(wire) : IsClose(wire[j]) /\ IsBlock(wire[j - 1])

(***************************************************************************)
(* C2.  A SerialException during the transfer of an encrypted task is      *)
(* propagated at its first occurrence: the port is neither closed nor      *)
(* reopened and no second begin command is sent for the task.              *)
(***************************************************************************)
C2_EncryptedNeverRetried ==
    [][ /\ (task.encrypted /\ pc \in {"begin", "blocks"}
              /\ pc' \notin {"blocks", "post_task"})
           => /\ pc' = "raised"
              /\ err'.exc = "SerialException"
              /\ wire' = wire
              /\ esp' = esp
        /\ (task'.encrypted => task'.begins <= 1 /\ pc' # "reconnect") ]_vars

\* The transfer of an encrypted task was interrupted after a block.
C2_Witness ==
    /\ pc = "raised"
    /\ err.exc = "SerialException"
    /\ task.encrypted
    /\ task.begins = 1
    /\ Len(wire) > 0
    /\ IsBlock(wire[Len(wire)])

(***************************************************************************)
(* C3.  Retry is bounded.  A task's begin/stream sequence is started at    *)
(* most WRITE_FLASH_ATTEMPTS times, a disconnect is followed by at most    *)
(* DEFAULT_CONNECT_ATTEMPTS calls of open(), write_flash polls or retries  *)
(* only while an attempt is left, a disconnect in the last attempt and a   *)
(* failure of the last poll raise the SerialException, and write_flash     *)
(* ends however often the transport disconnects: it is never stuck, and    *)
(* every step it takes lowers a bound on the steps that are left.          *)
(***************************************************************************)
OpensSinceClose ==
    Cardinality({j \in (LastIdx(IsClose) + 1)..Len(wire) : IsOpen(wire[j])})

C3_Bounds ==
    /\ task.begins <= WRITE_FLASH_ATTEMPTS
    /\ (LastIdx(IsClose) > 0 => OpensSinceClose <= DEFAULT_CONNECT_ATTEMPTS)
    /\ (pc = "reconnect" =>
            /\ task.begins < WRITE_FLASH_ATTEMPTS
            /\ OpensSinceClose < DEFAULT_CONNECT_ATTEMPTS)

\* No image of the request is longer than this: the file, its padding, the fill
\* bytes before an unaligned address, and twice that when compressed.
ImageBound ==
    LET tasks == req.addr_filename \o req.encrypt_files.files
        Size(t) == Len(t.file.data) + esp.FLASH_ENCRYPTED_WRITE_ALIGN
                       + (t.address % FLASH_SECTOR_SIZE)
        RECURSIVE Most(_)
        Most(i) == IF i > Len(tasks) THEN 0 ELSE Max(Size(tasks[i]), Most(i + 1))
    IN  2 * Most(1)

\* A bound on the steps write_flash has left: per attempt a begin command, the
\* blocks, the disconnect and the polls; per task the attempts, the preparation
\* and the verification.
StepsLeft ==
    LET A == ImageBound + 2 + DEFAULT_CONNECT_ATTEMPTS
        T == WRITE_FLASH_ATTEMPTS * A + 3
        N == Len(req.addr_filename) + Len(req.encrypt_files.files)
        after == (Len(all_files) - idx) * T + 2
        later == (WRITE_FLASH_ATTEMPTS - task.attempt) * A
    IN  CASE pc = "preflight" -> (N + 1) * T + 3
          [] pc = "erase" -> (N + 1) * T + 2
          [] pc = "next_task" -> (Len(all_files) - idx + 1) * T + 1
          [] pc = "begin" -> after + later + A + 1
          [] pc = "blocks" ->
               after + later + Len(task.image) + 1 + DEFAULT_CONNECT_ATTEMPTS + 1
          [] pc = "reconnect" ->
               after + later + (DEFAULT_CONNECT_ATTEMPTS - task.tries) + 1
          [] pc = "post_task" -> after
          [] OTHER -> 0

\* In every state that is not final a step of write_flash can be taken.
NotStuck ==
    \/ Terminated
    \/ pc \in {"preflight", "erase", "begin", "reconnect", "post_task"}
    \/ pc = "next_task" /\ idx >= 1
    \/ pc = "blocks" /\ Len(task.image) > 0

C5_OpenOnlyAfterClose ==
    \A j \in 1..Len(wire) :
        IsOpen(wire[j]) =>
            \E k \in 1..(j - 1) :
                /\ IsClose(wire[k])
                /\ \A m \in (k + 1)..(j - 1) : ~(IsOpen(wire[m]) /\ wire[m].n = 1)


(***************************************************************************)
(* C6.  The tasks of a request are transferred in strictly ascending       *)
(* address order, whatever order the caller passed them in and whether or  *)
(* not encrypt_files is given.                                             *)
(***************************************************************************)
\* The entries of all_files whose transfer has begun, in order.
Transferred ==
    {i \in 1..Len(all_files) :
        /\ Len(all_files[i].file.data) > 0
        /\ \/ i < idx
           \/ i = idx /\ pc \in {"begin", "blocks", "reconnect", "post_task"}}

C6_AscendingTransferOrder ==
    \A i, j \in Transferred :
        i < j => all_files[i].address < all_files[j].address

(***************************************************************************)
(* C7.  A request with a task, of addr_filename or of encrypt_files, whose *)
(* address + length exceeds the resolved flash size is rejected with a     *)
(* FatalError before anything is erased or written.                        *)
(***************************************************************************)
AllTasks == req.addr_filename \o req.encrypt_files.files

Rejected == pc = "raised" /\ err.exc = "FatalError"

C7_OversizeRejected ==
    LET flash_end == GeometryPreflight(esp, req).flash_end IN
    (/\ flash_end # None
     /\ \E i \in 1..Len(AllTasks) :
            AllTasks[i].address + Len(AllTasks[i].file.data) > flash_end)
    => /\ FlashUntouched
       /\ (pc # "preflight" => Rejected)

(***************************************************************************)
(* C8.  If a task that is to be encrypted (every task when encrypt is set, *)
(* otherwise each entry of encrypt_files) has an address that is not a     *)
(* multiple of FLASH_ENCRYPTED_WRITE_ALIGN, the request is rejected with a *)
(* FatalError and nothing is erased or written.                            *)
(***************************************************************************)
ToEncrypt == IF req.encrypt THEN AllTasks ELSE req.encrypt_files.files

C8_MisalignedRejected ==
    (\E i \in 1..Len(ToEncrypt) :
        ToEncrypt[i].address % esp.FLASH_ENCRYPTED_WRITE_ALIGN # 0)
    => /\ FlashUntouched
       /\ (pc # "preflight" => Rejected)

(***************************************************************************)
(* C9.  With secure boot active and the security pre-flight not skipped    *)
(* (no force, not an ESP8266, not in secure download mode), a request with *)
(* a task below 0x8000, of addr_filename or of encrypt_files, is rejected  *)
(* and nothing is erased or written.                                       *)
(***************************************************************************)
SecurityPreflightRuns ==
    ~req.force /\ esp.CHIP_NAME # "ESP8266" /\ ~esp.secure_download_mode

C9_SecureBootProtectsLowRegion ==
    (/\ SecurityPreflightRuns
     /\ esp.secure_boot_enabled
     /\ \E i \in 1..Len(AllTasks) : AllTasks[i].address < SECURE_BOOT_LIMIT)
    => /\ FlashUntouched
       /\ (pc # "preflight" => Rejected)

(***************************************************************************)
(* C10.  In the pre-flight a file of addr_filename that parses as an image *)
(* is rejected when its chip id is not the session's or the chip revision  *)
(* is outside the declared range: [min_rev_full, max_rev_full] whenever    *)
(* max_rev_full is not 0, except when max_rev_full is 65535, min_rev_full  *)
(* is 0 and min_rev is not 0; then, and when max_rev_full is 0, only       *)
(* min_rev bounds the major revision (the minor one on ESP32-C3) from      *)
(* below.  A file that does not parse is not checked, and no file is       *)
(* rejected for its chip id or revision otherwise.                         *)
(***************************************************************************)
ExtendedRange(img) ==
    /\ img.max_rev_full # 0
    /\ ~(img.max_rev_full = MAX_REV_DEFAULT /\ img.min_rev_full = 0 /\ img.min_rev # 0)

WrongChip(f) == f.img.ok /\ f.img.chip_id # esp.IMAGE_CHIP_ID

OutOfRange(f) ==
    /\ f.img.ok
    /\ ExtendedRange(f.img)
    /\ (esp.chip_revision < f.img.min_rev_full \/ esp.chip_revision > f.img.max_rev_full)

TooOld(f) ==
    /\ f.img.ok
    /\ ~ExtendedRange(f.img)
    /\ (IF esp.CHIP_NAME = "ESP32-C3" THEN esp.minor_chip_version
        ELSE esp.major_chip_version) < f.img.min_rev

SomeFile(P(_)) == \E i \in 1..Len(req.addr_filename) : P(req.addr_filename[i].file)

SecurityRefusals ==
    { "Secure Boot detected",
      "flash encryption and secure download mode enabled",
      "flash encryption enabled and download manual encrypt disabled",
      "Active security features detected" }

C11_ForceBypassesSecurity ==
    req.force => ~(pc = "raised" /\ err.exc = "FatalError" /\ err.msg \in SecurityRefusals)

(***************************************************************************)
(* C12.  When write_flash has returned normally, every task that was       *)
(* transferred, is not encrypted and was not written in secure download    *)
(* mode has been verified: the device was asked for the hash of the        *)
(* region written, and its answer was the hash of the bytes written.       *)
(***************************************************************************)
\* The entries of all_files that are verified after their transfer.
Verifiable ==
    {i \in 1..Len(all_files) :
        /\ Len(all_files[i].file.data) > 0
        /\ ~all_files[i].encrypted
        /\ ~esp.secure_download_mode}

C12_ReturnMeansVerified ==
    pc = "done" =>
        \A i \in Verifiable :
            LET t == PreparedTask(esp, req, flash_size, FALSE, all_files[i]) IN
            /\ \E j \in 1..Len(wire) :
                   /\ wire[j].op = "flash_md5sum"
                   /\ wire[j].addr = t.address
                   /\ wire[j].n = t.uncsize
            /\ device.md5 # "unsupported"
            /\ DeviceMd5(t) = t.calcmd5

(***************************************************************************)
(* C13.  In a request with compression on, a task is sent uncompressed if  *)
(* and only if it is encrypted: a non-encrypted task is sent compressed    *)
(* also when an encrypted task came before it.                             *)
(***************************************************************************)
C13_CompressionPerTask ==
    (pc \in {"blocks", "post_task"} /\ DefaultCompress(esp, req)) =>
        (wire[LastIdx(IsBegin)].op = "flash_defl_begin" <=> ~task.encrypted)

(***************************************************************************)
(* C14.  After the last task write_flash sends one finish command with the *)
(* reboot flag false, in boot-ROM mode as well as under the stub.          *)
(* (The statement as claimed; see C14_FinishUnderStubOnly.)                *)
(***************************************************************************)
FinishCommands ==
    {j \in 1..Len(wire) : wire[j].op \in {"flash_finish", "flash_defl_finish"}}

C14_OneFinishAlways ==
    pc = "done" => Cardinality(FinishCommands) = 1

(***************************************************************************)
(* C14, amended.  Under the stub, after the last task, write_flash sends   *)
(* flash_begin(0, 0) and then exactly one finish command with the reboot   *)
(* flag false, the deflate variant if and only if the last task was sent   *)
(* compressed (for a request whose last file is not empty); in boot-ROM    *)
(* mode it sends no finish command.  No finish command is sent before the  *)
(* last task is over, and write_flash never resets the chip.               *)
(***************************************************************************)
C14_FinishUnderStubOnly ==
    /\ pc # "done" => FinishCommands = {}
    /\ \A j \in 1..Len(wire) : wire[j].op \notin {"hard_reset", "soft_reset", "run"}
    /\ pc = "done" =>
         IF esp.IS_STUB
         THEN LET n == Len(wire) IN
              /\ FinishCommands = {n}
              /\ wire[n].n = 0
              /\ wire[n - 1] = Call("flash_begin", 0, 0, <<>>)
              /\ Len(all_files[Len(all_files)].file.data) > 0
                    => (wire[n].op = "flash_defl_finish"
                          <=> wire[LastIdx(IsBegin)].op = "flash_defl_begin")
         ELSE FinishCommands = {}

\* A stub session has finished a compressed transfer of several tasks.
C14_Witness ==
    /\ pc = "done"
    /\ esp.IS_STUB
    /\ Len(all_files) >= 2
    /\ wire[Len(wire)].op = "flash_defl_finish"

(***************************************************************************)
(* C15.  Under the stub one register read follows the last block of every  *)
(* task, before the task's hash verification and before the next begin     *)
(* command; in boot-ROM mode no register read is issued.                   *)
(***************************************************************************)
C15_RegisterReadAfterLastBlock ==
    pc \notin {"reconnect", "raised"} =>
        IF esp.IS_STUB
        THEN /\ \A j \in 1..Len(wire) :
                    IsBlock(wire[j]) =>
                        \/ j = Len(wire) /\ pc \in {"blocks", "post_task"}
                        \/ /\ j < Len(wire)
                           /\ \/ IsBlock(wire[j + 1])
                              \/ IsClose(wire[j + 1])
                              \/ wire[j + 1].op = "read_reg"
             /\ \A j \in 1..Len(wire) :
                    wire[j].op = "read_reg" => (j > 1 /\ IsBlock(wire[j - 1]))
        ELSE \A j \in 1..Len(wire) : wire[j].op # "read_reg"

\* A stub session has read the register and verified the task, and has begun
\* the next task.
C15_Witness ==
    /\ esp.IS_STUB
    /\ pc = "blocks"
    /\ \E j \in 2..(Len(wire) - 2) :
           /\ IsBlock(wire[j - 1])
           /\ wire[j].op = "read_reg"
           /\ wire[j + 1].op = "flash_md5sum"
           /\ IsBegin(wire[j + 2])

(***************************************************************************)
(* C16.  In secure download mode or with secure boot enabled the image of  *)
(* a task is not patched: the bytes sent, and the bytes hashed for the     *)
(* verification, are the file's bytes and padding only (the 0xFF bytes     *)
(* before an unaligned address in boot-ROM mode, the padding to the write  *)
(* granularity, the fill of the last block), whatever flash_mode,          *)
(* flash_freq and flash_size are.                                          *)
(***************************************************************************)
\* The file of the current task with its padding.
FileAndPadding ==
    LET entry == all_files[idx]
        bytes_over == IF esp.IS_STUB THEN 0 ELSE entry.address % FLASH_SECTOR_SIZE
    IN  Fill(bytes_over)
            \o pad_to(entry.file.data,
                      IF entry.encrypted THEN esp.FLASH_ENCRYPTED_WRITE_ALIGN ELSE 4)

C16_NoPatchUnderSecurity ==
    (pc = "post_task" /\ (esp.secure_download_mode \/ esp.secure_boot_enabled)) =>
        LET k == LastIdx(IsBegin)
            sent == Payload(SubSeq(wire, k + 1, Len(wire)))
            raw == FileAndPadding
        IN  /\ task.calcmd5 = MD5(raw)
            /\ wire[k].n = Len(raw)
            /\ IF wire[k].op = "flash_defl_begin"
               THEN Decompress(sent) = raw
               ELSE /\ Take(sent, Len(raw)) = raw
                    /\ Drop(sent, Len(raw)) = Fill(Len(sent) - Len(raw))

\* A bootloader image that would have been patched was sent as it is.
C16_Witness ==
    /\ pc = "post_task"
    /\ esp.secure_download_mode \/ esp.secure_boot_enabled
    /\ _update_image_flash_params(esp, task.address, req.flash_freq, req.flash_mode,
                                  flash_size, FileAndPadding) # FileAndPadding

(***************************************************************************)
(* detect_chip (lines 85-187) and run_stub (lines 1559-1602).              *)
(*                                                                         *)
(* A second specification on the same variables: esp is inst, the session  *)
(* detect_chip builds (NoInst while it is None) and run_stub is then       *)
(* called with; device is detect_port and the host; task holds the locals  *)
(* chip_id, chip_magic_value, err_msg and the exception e of phase 1; wire *)
(* is the log of the calls made, each with the phase it was made in and    *)
(* how it ended.  The other variables are not used.                        *)
(***************************************************************************)
\* ROM_LIST: the profiles, those identified by a magic value and those
\* identified by the chip id of get_security_info.
ROM_LIST ==
    << [CHIP_NAME |-> "ESP32", USES_MAGIC_VALUE |-> TRUE, MAGIC_VALUE |-> 15736195,
        IMAGE_CHIP_ID |-> 0, STUB_CLASS |-> TRUE],
       [CHIP_NAME |-> "ESP32-S2", USES_MAGIC_VALUE |-> TRUE, MAGIC_VALUE |-> 1990,
        IMAGE_CHIP_ID |-> 2, STUB_CLASS |-> TRUE],
       [CHIP_NAME |-> "ESP32-C3", USES_MAGIC_VALUE |-> FALSE, MAGIC_VALUE |-> None,
        IMAGE_CHIP_ID |-> 5, STUB_CLASS |-> TRUE],
       [CHIP_NAME |-> "ESP32-H21", USES_MAGIC_VALUE |-> FALSE, MAGIC_VALUE |-> None,
        IMAGE_CHIP_ID |-> 25, STUB_CLASS |-> FALSE] >>

\* What get_chip_id() and the read of CHIP_DETECT_MAGIC_REG_ADDR can answer: the
\* keys of the profiles, of either kind, and a value no profile has.
ChipIdAnswers == {0, 2, 5, 25, 77}
MagicAnswers == {15736195, 1990, 5, 77}

\* The exceptions a request of detect_chip can end with.
Unsupported == "UnsupportedCommandError"
StructError == "struct.error"
FatalErr == "FatalError"

NoInst == [CHIP_NAME |-> "None"]

\* Mutant of MatchChipId: profiles identified by a magic value are not skipped.
MatchChipId_AnyKind(chip_id) ==
    {i \in 1..Len(ROM_LIST) : chip_id = ROM_LIST[i].IMAGE_CHIP_ID}

\* for cls in ROM_LIST: if cls.USES_MAGIC_VALUE: continue;
\* if chip_id == cls.IMAGE_CHIP_ID (lines 131-135)
MatchChipId(chip_id) ==
    {i \in 1..Len(ROM_LIST) :
        ~ROM_LIST[i].USES_MAGIC_VALUE /\ chip_id = ROM_LIST[i].IMAGE_CHIP_ID}

\* for cls in ROM_LIST: if not cls.USES_MAGIC_VALUE: continue;
\* if chip_magic_value == cls.MAGIC_VALUE (lines 165-168)
MatchMagic(chip_magic_value) ==
    {i \in 1..Len(ROM_LIST) :
        ROM_LIST[i].USES_MAGIC_VALUE /\ chip_magic_value = ROM_LIST[i].MAGIC_VALUE}

\* The first profile of the list among those that match (the loop breaks).
First(S) == CHOOSE i \in S : \A k \in S : i <= k

\* inst = cls(detect_port._port, ...): a boot-ROM session of the profile
NewInst(cls, disabled) ==
    [CHIP_NAME |-> cls.CHIP_NAME, STUB_CLASS |-> cls.STUB_CLASS, IS_STUB |-> FALSE,
     secure_download_mode |-> FALSE, sync_stub_detected |-> FALSE,
     stub_is_disabled |-> disabled]

\* check_if_stub(instance) (lines 114-119)
check_if_stub(instance) ==
    IF device.sync_stub_detected /\ instance.STUB_CLASS
    THEN [instance EXCEPT !.IS_STUB = TRUE, !.sync_stub_detected = TRUE]
    ELSE instance

\* Mutant of FallbackError: the unsupported-command error is handled like any
\* other one.
FallbackError_Propagate(o) == [exc |-> o, msg |-> ""]

\* except UnsupportedCommandError: raise FatalError(...) (lines 175-180); any
\* other exception of the fallback phase propagates
FallbackError(o) ==
    IF o = Unsupported
    THEN Fatal("Unsupported Command Error received, need to manually specify the chip")
    ELSE [exc |-> o, msg |-> ""]

NoLocals == [chip_id |-> None, chip_magic_value |-> None, err_msg |-> <<>>, e |-> ""]

\* A call of detect_chip or run_stub in the log: the phase and how it ended.
Did(op, phase, outcome) == Call(op, 0, phase, outcome)

\* Lines 108-112: detect_port = ESPLoader(...); detect_port.connect(...).
DetectConnect ==
    /\ pc = "dc_connect"
    /\ \E o \in {"ok", FatalErr} :
          /\ wire' = Append(wire, Did("connect", 1, o))
          /\ IF o = "ok"
             THEN pc' = "dc_get_chip_id" /\ UNCHANGED err
             ELSE Raise([exc |-> o, msg |-> ""])
    /\ UNCHANGED <<esp, device, req, compress, flash_size, all_files, idx, task, faults>>

\* Lines 128-148 up to the match: get_chip_id() answers or raises; no profile of
\* the chip-id kind matching sets err_msg.
DetectGetChipId ==
    /\ pc = "dc_get_chip_id"
    /\ \/ \E v \in ChipIdAnswers :
            /\ wire' = Append(wire, Did("get_chip_id", 1, "ok"))
            /\ IF MatchChipId(v) # {}
               THEN /\ task' = [task EXCEPT !.chip_id = v]
                    /\ pc' = "dc_session"
               ELSE /\ task' = [task EXCEPT !.chip_id = v,
                                   !.err_msg = <<"Unexpected chip ID value", v>>]
                    /\ pc' = "dc_finish"
       \/ \E o \in {Unsupported, StructError, FatalErr} :
            /\ wire' = Append(wire, Did("get_chip_id", 1, o))
            /\ task' = [task EXCEPT !.e = o]
            /\ pc' = "dc_fallback"
    /\ UNCHANGED <<esp, device, req, err, compress, flash_size, all_files, idx, faults>>

\* Lines 136-148: the session of the matching profile, the dummy read that tells
\* secure download mode, check_if_stub and _post_connect(); an exception of the
\* three kinds of line 148 leads to the fallback, with inst already set.
DetectSession ==
    /\ pc = "dc_session"
    /\ \E r \in {"ok", Unsupported, StructError, FatalErr},
          c \in {"ok", Unsupported, StructError, FatalErr},
          disabled \in BOOLEAN :
          LET cls == ROM_LIST[First(MatchChipId(task.chip_id))]
              inst == [NewInst(cls, disabled) EXCEPT
                          !.secure_download_mode = (r = Unsupported)]
              read_ok == r \in {"ok", Unsupported}
          IN  /\ wire' = wire \o <<Did("read_reg", 1, r)>>
                           \o (IF read_ok THEN <<Did("_post_connect", 1, c)>> ELSE <<>>)
              /\ esp' = IF read_ok THEN check_if_stub(inst) ELSE inst
              /\ IF read_ok /\ c = "ok"
                 THEN pc' = "dc_finish" /\ UNCHANGED task
                 ELSE /\ pc' = "dc_fallback"
                      /\ task' = [task EXCEPT !.e = IF read_ok THEN c ELSE r]
    /\ UNCHANGED <<device, req, err, compress, flash_size, all_files, idx, faults>>

\* Lines 153-159: the reconnect of the fallback, left out after a struct.error.
DetectReconnect ==
    /\ pc = "dc_fallback"
    /\ IF task.e = StructError
       THEN /\ pc' = "dc_read_magic"
            /\ UNCHANGED <<wire, err>>
       ELSE \E o \in {"ok", Unsupported, FatalErr} :
               /\ wire' = Append(wire, Did("connect", 2, o))
               /\ IF o = "ok"
                  THEN pc' = "dc_read_magic" /\ UNCHANGED err
                  ELSE Raise(FallbackError(o))
    /\ UNCHANGED <<esp, device, req, compress, flash_size, all_files, idx, task, faults>>

\* Lines 160-180: the read of the magic value and the match against the profiles
\* of the magic kind.
DetectReadMagic ==
    /\ pc = "dc_read_magic"
    /\ \/ \E v \in MagicAnswers, c \in {"ok", Unsupported, FatalErr},
             disabled \in BOOLEAN :
            IF MatchMagic(v) # {}
            THEN /\ wire' = wire \o <<Did("read_reg", 2, "ok"),
                                      Did("_post_connect", 2, c)>>
                 /\ esp' = check_if_stub(
                               NewInst(ROM_LIST[First(MatchMagic(v))], disabled))
                 /\ task' = [task EXCEPT !.chip_magic_value = v]
                 /\ IF c = "ok"
                    THEN pc' = "dc_finish" /\ UNCHANGED err
                    ELSE Raise(FallbackError(c))
            ELSE /\ c = "ok" /\ ~disabled
                 /\ wire' = Append(wire, Did("read_reg", 2, "ok"))
                 /\ task' = [task EXCEPT !.chip_magic_value = v,
                                        !.err_msg = <<"Unexpected chip magic value", v>>]
                 /\ pc' = "dc_finish"
                 /\ UNCHANGED <<esp, err>>
       \/ \E o \in {Unsupported, FatalErr} :
            /\ wire' = Append(wire, Did("read_reg", 2, o))
            /\ Raise(FallbackError(o))
            /\ UNCHANGED <<esp, task>>
    /\ UNCHANGED <<device, req, compress, flash_size, all_files, idx, faults>>

\* Lines 181-187: return inst, or raise FatalError with err_msg.
DetectFinish ==
    /\ pc = "dc_finish"
    /\ IF esp # NoInst
       THEN pc' = "detected" /\ UNCHANGED err
       ELSE Raise(Fatal(task.err_msg))
    /\ UNCHANGED <<esp, device, req, compress, flash_size, all_files, idx, task, wire,
                   faults>>

\* The chips run_stub does not load the stub on (lines 1582-1585).
StubUnsupportedChips == {"ESP32-H21", "ESP32-H4"}

\* The three branches of run_stub that only warn (lines 1572-1589).
StubSkipped(e) ==
    \/ e.secure_download_mode
    \/ ~e.IS_STUB /\ e.stub_is_disabled
    \/ e.CHIP_NAME \in StubUnsupportedChips

\* run_stub(esp) (lines 1559-1602) on the session detect_chip returned: a warning
\* and the session as it is, or esp.run_stub(), whose exception is raised again
\* (after the note about the CH9102 bridge on MacOS).
RunStub ==
    /\ pc = "detected"
    /\ IF StubSkipped(esp)
       THEN /\ wire' = Append(wire, Did("warning", 3, "ok"))
            /\ pc' = "stub_returned"
            /\ UNCHANGED <<esp, err>>
       ELSE \E o \in {"ok", FatalErr, "SerialException"} :
               IF o = "ok"
               THEN /\ wire' = Append(wire, Did("run_stub", 3, o))
                    /\ esp' = [esp EXCEPT !.IS_STUB = TRUE]
                    /\ pc' = "stub_returned"
                    /\ UNCHANGED err
               ELSE /\ wire' = wire \o <<Did("run_stub", 3, o)>>
                         \o (IF device.platform = "darwin"
                             THEN <<Did("_get_pid", 3, "ok")>> ELSE <<>>)
                    /\ pc' = "stub_raised"
                    /\ err' = [exc |-> o, msg |-> ""]
                    /\ UNCHANGED esp
    /\ UNCHANGED <<device, req, compress, flash_size, all_files, idx, task, faults>>

\* detect_chip is called on a port; the device may run the stub already
\* (sync_stub_detected), the host is a Mac or not.
SessionInit ==
    /\ esp = NoInst
    /\ device \in [sync_stub_detected : BOOLEAN, platform : {"darwin", "linux"}]
    /\ task = NoLocals
    /\ pc = "dc_connect"
    /\ err = NoErr
    /\ wire = <<>>
    /\ req = PlainReq(<<>>)
    /\ compress = FALSE
    /\ flash_size = "keep"
    /\ all_files = <<>>
    /\ idx = 0
    /\ faults = 0

SessionNext ==
    \/ DetectConnect
    \/ DetectGetChipId
    \/ DetectSession
    \/ DetectReconnect
    \/ DetectReadMagic
    \/ DetectFinish
    \/ RunStub

SessionSpec == SessionInit /\ [][SessionNext]_vars

(***************************************************************************)
(* Claims about detect_chip and run_stub, checked under SessionSpec.       *)
(***************************************************************************)
\* detect_chip has returned a session (run_stub may have run on it since).
DetectReturned == pc \in {"detected", "stub_returned", "stub_raised"}

\* The session is of a profile of the chip-id kind whose key is the chip id read
\* in phase 1, or of the magic kind whose key is the magic value read in phase 2.
ProfileOfRightKind(i) ==
    /\ ROM_LIST[i].CHIP_NAME = esp.CHIP_NAME
    /\ \/ /\ ~ROM_LIST[i].USES_MAGIC_VALUE
          /\ task.chip_id # None
          /\ ROM_LIST[i].IMAGE_CHIP_ID = task.chip_id
       \/ /\ ROM_LIST[i].USES_MAGIC_VALUE
          /\ task.chip_magic_value # None
          /\ ROM_LIST[i].MAGIC_VALUE = task.chip_magic_value

NoIdProfile(v) ==
    \A i \in 1..Len(ROM_LIST) :
        ROM_LIST[i].USES_MAGIC_VALUE \/ ROM_LIST[i].IMAGE_CHIP_ID # v

NoMagicProfile(v) ==
    \A i \in 1..Len(ROM_LIST) :
        ~ROM_LIST[i].USES_MAGIC_VALUE \/ ROM_LIST[i].MAGIC_VALUE # v

\* C17: detect_chip returns a session only if the chip id read in phase 1 or the
\* magic value read in phase 2 is the key of a known profile of the matching
\* kind, and the session is of that profile; when the value read matches no
\* profile (neither phase matched) detect_chip ends with a FatalError that names
\* the raw chip id or magic value, and no session exists.
C17_DetectMatchesProfile ==
    /\ DetectReturned => \E i \in 1..Len(ROM_LIST) : ProfileOfRightKind(i)
    /\ (pc = "dc_finish" \/ DetectReturned) =>
          /\ esp = NoInst =>
                \/ /\ task.chip_id # None /\ NoIdProfile(task.chip_id)
                   /\ task.err_msg = <<"Unexpected chip ID value", task.chip_id>>
                \/ /\ task.chip_magic_value # None
                   /\ NoMagicProfile(task.chip_magic_value)
                   /\ task.err_msg =
                         <<"Unexpected chip magic value", task.chip_magic_value>>
    /\ pc = "raised" =>
          /\ (task.chip_magic_value = None /\ task.chip_id # None
                 /\ NoIdProfile(task.chip_id)) =>
                /\ err = Fatal(<<"Unexpected chip ID value", task.chip_id>>)
                /\ esp = NoInst
          /\ (task.chip_magic_value # None /\ NoMagicProfile(task.chip_magic_value)) =>
                /\ err = Fatal(<<"Unexpected chip magic value", task.chip_magic_value>>)
                /\ esp = NoInst

\* get_chip_id() was refused, the magic value read in the fallback is the key of
\* ESP32-S2 and a session of that profile was returned.
C17_Witness ==
    /\ pc = "detected"
    /\ task.chip_id = None
    /\ task.chip_magic_value = 1990
    /\ esp.CHIP_NAME = "ESP32-S2"

\* A call of the fallback phase: the reconnect or the read of the magic value.
FallbackRequest(j) ==
    /\ wire[j].n = 2
    /\ wire[j].op \in {"connect", "read_reg"}

\* C18: when the reconnect or the magic-value read of the fallback phase ends
\* with the unsupported-command error, detect_chip fails at once with a
\* FatalError that tells to specify the chip manually: that call is the last
\* one made and no session is returned.
C18_UnsupportedInFallbackIsFatal ==
    \A j \in 1..Len(wire) :
        (FallbackRequest(j) /\ wire[j].data = Unsupported) =>
            /\ j = Len(wire)
            /\ pc = "raised"
            /\ err = Fatal("Unsupported Command Error received, need to manually specify the chip")

\* The magic-value read was refused after a session had been built in phase 1.
C18_Witness ==
    /\ pc = "raised"
    /\ Len(wire) > 0
    /\ wire[Len(wire)] = Did("read_reg", 2, Unsupported)
    /\ esp # NoInst

\* C19: run_stub never raises; when loading the stub fails it returns the
\* boot-ROM session it was given.
C19_RunStubNeverRaises ==
    /\ pc # "stub_raised"
    /\ (\E j \in 1..Len(wire) : wire[j].op = "run_stub" /\ wire[j].data # "ok") =>
          (pc = "stub_returned" /\ ~esp.IS_STUB)

\* C20: run_stub attempts the load only when secure download mode is off, the
\* stub is not disabled for the session and the chip is not one of ESP32-H21 and
\* ESP32-H4; otherwise nothing is sent.
C20_LoadOnlyWhenAllowed ==
    (\E j \in 1..Len(wire) : wire[j].op = "run_stub") =>
        /\ ~esp.secure_download_mode
        /\ ~esp.stub_is_disabled
        /\ esp.CHIP_NAME \notin StubUnsupportedChips

(***************************************************************************)
(* The session flag IS_STUB over write_flash.                              *)
(***************************************************************************)
\* C21: the IS_STUB flag of the session changes at most once, from false to
\* true: no step of write_flash, the retry path included, sets it back to
\* false.
C21_IsStubNeverReset == [][esp.IS_STUB => esp'.IS_STUB]_vars

(***************************************************************************)
(* _update_image_flash_params on its own (lines 337-424).                  *)
(*                                                                         *)
(* A third specification on the same variables: esp is the session, task   *)
(* holds the arguments address, flash_freq, flash_mode, flash_size, image  *)
(* and, once the function has returned, the image it returned; wire is the *)
(* log (log.warning and log.print).  The other variables are not used.     *)
(***************************************************************************)
\* An image file: the first byte, nseg segments of one byte, flash mode dio,
\* size 4MB and frequency 80m in the header, the digest flag, the digest (the
\* one of the bytes before it, or another one) and the bytes that follow in a
\* merged binary.
PatchImage(magic, nseg, sha, digest, tail) ==
    LET body == <<magic, nseg, 2, 47>> \o [i \in 1..(IMAGE_HEADER_LEN - 5) |-> 0]
                    \o <<sha>> \o [i \in 1..nseg |-> 7]
        good == SHA256(body)
        stale == [good EXCEPT ![1] = (@ + 1) % 256]
    IN  body \o (IF sha = 1 THEN (IF digest = "ok" THEN good ELSE stale) ELSE <<>>)
             \o tail

\* The images _update_image_flash_params is called with: whole ones, with and
\* without digest and tail, ones that do not load (no segment, cut short), a
\* header alone and less than a header.
PatchImages ==
    { PatchImage(magic, nseg, sha, digest, tail) :
        magic \in {ESP_IMAGE_MAGIC, 0}, nseg \in 0..2, sha \in {0, 1},
        digest \in {"ok", "stale"}, tail \in {<<>>, <<9, 8, 7>>} }
    \cup { <<ESP_IMAGE_MAGIC, 1, 2>>,
           <<ESP_IMAGE_MAGIC, 1, 2, 47, 0, 0, 0, 0>>,
           Take(PatchImage(ESP_IMAGE_MAGIC, 2, 1, "ok", <<>>), IMAGE_HEADER_LEN + 2) }

\* The messages _update_image_flash_params logs (lines 349-352, 362-365, 386,
\* 415-422); image_stored_sha is read from the image that is returned.
_update_image_flash_params_log(e, address, freq, mode, size, image) ==
    IF Len(image) < 8 THEN <<>>
    ELSE IF address # e.BOOTLOADER_FLASH_OFFSET THEN <<>>
    ELSE IF mode = "keep" /\ freq = "keep" /\ size = "keep" THEN <<>>
    ELSE IF image[1] # ESP_IMAGE_MAGIC
         THEN <<Call("warning", address, 0, "doesn't look like an image file")>>
    ELSE IF ~ImageVerifies(image)
         THEN <<Call("warning", address, 0, "is not a valid image")>>
    ELSE
    LET sha_appended == image[8 + 15 + 1] = 1
        result == _update_image_flash_params(e, address, freq, mode, size, image)
        flash_params == SubSeq(result, 3, 4)
        n == ImageDataLength(result)
        sha_digest_calculated == SHA256(Take(result, n))
        image_stored_sha == SubSeq(result, n + 1, n + SHA256_DIGEST_LEN)
    IN  (IF flash_params # SubSeq(image, 3, 4)
         THEN <<Call("print", address, 0, "Flash params set")>> ELSE <<>>)
        \o (IF sha_appended
            THEN IF sha_digest_calculated = image_stored_sha
                 THEN <<Call("print", address, 0, "SHA digest in image updated")>>
                 ELSE <<Call("warning", address, 0, "SHA recalculation for binary failed")>>
            ELSE <<>>)

\* The arguments of one call.
PatchArgs ==
    [address : {0, 4096}, flash_mode : {"keep", "qio", "dio"},
     flash_freq : {"keep", "40m", "80m"}, flash_size : {"keep", "2MB", "4MB"},
     image : PatchImages, returned : {<<>>}]

PatchInit ==
    /\ esp \in {PlainEsp(chip, FALSE) : chip \in {"ESP32", "ESP32-C3"}}
    /\ task \in PatchArgs
    /\ pc = "patch_call"
    /\ err = NoErr
    /\ wire = <<>>
    /\ device = [running |-> "rom"]
    /\ req = PlainReq(<<>>)
    /\ compress = FALSE
    /\ flash_size = "keep"
    /\ all_files = <<>>
    /\ idx = 0
    /\ faults = 0

\* image = _update_image_flash_params(esp, address, flash_freq, flash_mode,
\* flash_size, image)
UpdateImageFlashParams ==
    /\ pc = "patch_call"
    /\ task' = [task EXCEPT !.returned =
                   _update_image_flash_params(esp, task.address, task.flash_freq,
                       task.flash_mode, task.flash_size, task.image)]
    /\ wire' = _update_image_flash_params_log(esp, task.address, task.flash_freq,
                   task.flash_mode, task.flash_size, task.image)
    /\ pc' = "patch_returned"
    /\ UNCHANGED <<esp, device, req, err, compress, flash_size, all_files, idx, faults>>

PatchNext == UpdateImageFlashParams

PatchSpec == PatchInit /\ [][PatchNext]_vars

(***************************************************************************)
(* Claims about _update_image_flash_params, checked under PatchSpec.       *)
(***************************************************************************)
PatchReturned == pc = "patch_returned"

AllKeep == task.flash_mode = "keep" /\ task.flash_freq = "keep" /\ task.flash_size = "keep"

\* None of the five conditions under which the image is left alone holds.
PatchApplies ==
    /\ Len(task.image) >= 8
    /\ task.address = esp.BOOTLOADER_FLASH_OFFSET
    /\ ~AllKeep
    /\ task.image[1] = ESP_IMAGE_MAGIC
    /\ ImageVerifies(task.image)

\* The image declares an appended digest (byte 15 of the extended header).
DeclaresDigest(image) == image[IMAGE_HEADER_LEN] = 1

\* The positions of the digest field.
DigestField(image) ==
    (ImageDataLength(image) + 1)..(ImageDataLength(image) + SHA256_DIGEST_LEN)

\* The digest field holds the digest of the bytes before it.
DigestIsCurrent(image) ==
    SubSeq(image, ImageDataLength(image) + 1, ImageDataLength(image) + SHA256_DIGEST_LEN)
        = SHA256(Take(image, ImageDataLength(image)))

\* Every parameter asked for is "keep" or the value the header holds.
SameValues ==
    /\ task.flash_mode # "keep" => FLASH_MODES(task.flash_mode) = task.image[3]
    /\ task.flash_freq # "keep" =>
          parse_flash_freq_arg(task.flash_freq) = task.image[4] % 16
    /\ task.flash_size # "keep" =>
          parse_flash_size_arg(task.flash_size) = (task.image[4] \div 16) * 16

\* C22: _update_image_flash_params returns the image it was given, byte for
\* byte, when the image is shorter than 8 bytes, the address is not the
\* bootloader offset of the chip, mode, frequency and size are all "keep", the
\* first byte is not the image magic, or the data does not load and verify as an
\* image.
C22_LeftAlone ==
    (PatchReturned /\ ~PatchApplies) => task.returned = task.image

\* An image that loads and verifies, at the bootloader offset with a new mode,
\* but whose first byte is not the magic: returned as it is.
C22_Witness ==
    /\ PatchReturned
    /\ task.address = esp.BOOTLOADER_FLASH_OFFSET
    /\ task.flash_mode = "qio"
    /\ Len(task.image) >= 8
    /\ ImageVerifies(task.image)
    /\ task.image[1] # ESP_IMAGE_MAGIC
    /\ task.returned = task.image

\* C23, as stated: patching an image to the flash parameters it already holds
\* returns the image byte for byte, for every image that passes the checks,
\* with or without an appended digest.
C23_SameValuesSameBytes ==
    (PatchReturned /\ PatchApplies /\ SameValues) => task.returned = task.image

\* C23, amended: the same, for images whose appended digest, where one is
\* declared, is the digest of the bytes before it.
C23_SameValuesSameBytesIfDigestCurrent ==
    (/\ PatchReturned /\ PatchApplies /\ SameValues
     /\ DeclaresDigest(task.image) => DigestIsCurrent(task.image))
        => task.returned = task.image

\* A merged binary with a current digest, patched to the mode and frequency it
\* holds.
C23_Witness ==
    /\ PatchReturned /\ PatchApplies /\ SameValues
    /\ task.flash_mode = "dio" /\ task.flash_freq = "80m"
    /\ DeclaresDigest(task.image) /\ DigestIsCurrent(task.image)
    /\ Len(task.image) > ImageDataLength(task.image) + SHA256_DIGEST_LEN
    /\ task.returned = task.image

\* C24: a patched image has the length of the input and differs from it only in
\* bytes 2 and 3 (counted from 0) and, when a digest is declared, in the digest
\* field after the image data; the bytes after the digest are unchanged.
C24_OnlyParamsAndDigestChange ==
    (PatchReturned /\ PatchApplies) =>
        /\ Len(task.returned) = Len(task.image)
        /\ \A i \in 1..Len(task.image) :
              task.returned[i] # task.image[i] =>
                  \/ i \in {3, 4}
                  \/ DeclaresDigest(task.image) /\ i \in DigestField(task.image)

\* A merged binary with a digest, patched to a new mode and size: the header and
\* the digest have changed.
C24_Witness ==
    /\ PatchReturned /\ PatchApplies
    /\ task.flash_mode = "qio" /\ task.flash_size = "2MB"
    /\ DeclaresDigest(task.image)
    /\ Len(task.image) > ImageDataLength(task.image) + SHA256_DIGEST_LEN
    /\ task.returned[3] # task.image[3]
    /\ task.returned[4] # task.image[4]
    /\ \E i \in DigestField(task.image) : task.returned[i] # task.image[i]

\* C25: for an image that declares a digest and passes the checks, the digest
\* field of the image returned holds the SHA-256 of the bytes before it, as they
\* are after the header patch, whatever digest the input carried.
C25_DigestRecomputed ==
    (PatchReturned /\ PatchApplies /\ DeclaresDigest(task.image)) =>
        DigestIsCurrent(task.returned)

\* An image whose digest was not current, patched to a new frequency.
C25_Witness ==
    /\ PatchReturned /\ PatchApplies
    /\ DeclaresDigest(task.image)
    /\ ~DigestIsCurrent(task.image)
    /\ task.flash_freq = "40m"
    /\ task.returned[4] # task.image[4]
    /\ DigestIsCurrent(task.returned)

\* C26: when the digest stored in the input image is not the digest of its
\* content, _update_image_flash_params returns the patched image and logs a
\* digest-mismatch warning.
C26_StaleDigestWarned ==
    (/\ PatchReturned /\ PatchApplies
     /\ DeclaresDigest(task.image) /\ ~DigestIsCurrent(task.image))
        => \E j \in 1..Len(wire) : wire[j].op = "warning"

(***************************************************************************)
(* verify_flash (lines 1320-1380).                                         *)
(*                                                                         *)
(* A fourth specification on the same variables: req is the arguments      *)
(* addr_filename, flash_freq, flash_mode, flash_size and diff; flash_size  *)
(* the local after _set_flash_parameters; idx the position of the loop;    *)
(* task the local mismatch; device.flash what the flash holds in the       *)
(* region of each entry; wire the device calls and the lines of the diff.  *)
(***************************************************************************)
\* Lines 1344-1349: image = pad_to(argfile.read(), 4), then
\* _update_image_flash_params with the flash size of line 1340.
VerifyImage(e, r, size, entry) ==
    _update_image_flash_params(e, entry.address, r.flash_freq, r.flash_mode, size,
                               pad_to(entry.file.data, 4))

\* Mutant of Differences: the list stops at the first difference.
Differences_FirstOnly(flash, image) ==
    LET all == SelectSeq([i \in 1..Len(image) |-> i - 1],
                         LAMBDA i : flash[i + 1] # image[i + 1])
    IN  Take(all, 1)

\* differences = [i for i in range(image_size) if flash[i] != image[i]]
\* (line 1370)
Differences(flash, image) ==
    SelectSeq([i \in 1..Len(image) |-> i - 1], LAMBDA i : flash[i + 1] # image[i + 1])

\* Line 1340: flash_size = _set_flash_parameters(esp, flash_size).
VerifyEntry ==
    /\ pc = "vf_entry"
    /\ LET p == _set_flash_parameters(esp, req.flash_size)
       IN  IF p.err # NoErr
           THEN Raise(p.err) /\ UNCHANGED flash_size
           ELSE /\ flash_size' = p.size
                /\ pc' = "vf_loop"
                /\ UNCHANGED err
    /\ UNCHANGED <<esp, device, req, compress, all_files, idx, task, wire, faults>>

\* Lines 1343-1378: one iteration of the loop: the digest of the region is asked
\* for and compared; on a mismatch with diff set the region is read back and
\* every differing offset is printed.
VerifyTask ==
    /\ pc = "vf_loop"
    /\ idx <= Len(req.addr_filename)
    /\ LET entry == req.addr_filename[idx]
           image == VerifyImage(esp, req, flash_size, entry)
           image_size == Len(image)
           flash == device.flash[idx]
           digest == MD5(flash)
           expected_digest == MD5(image)
           differences == Differences(flash, image)
       IN  IF digest = expected_digest
           THEN /\ wire' = Append(wire,
                               Call("flash_md5sum", entry.address, image_size, <<>>))
                /\ idx' = idx + 1
                /\ UNCHANGED <<task, pc, err>>
           ELSE IF ~req.diff
           THEN /\ wire' = Append(wire,
                               Call("flash_md5sum", entry.address, image_size, <<>>))
                /\ task' = [task EXCEPT !.mismatch = TRUE]
                /\ idx' = idx + 1
                /\ UNCHANGED <<pc, err>>
           ELSE IF flash = image
           THEN \* assert flash != image
                /\ wire' = wire \o <<Call("flash_md5sum", entry.address, image_size, <<>>),
                                     Call("read_flash", entry.address, image_size, <<>>)>>
                /\ task' = [task EXCEPT !.mismatch = TRUE]
                /\ Raise([exc |-> "AssertionError", msg |-> ""])
                /\ UNCHANGED idx
           ELSE /\ wire' = wire
                      \o <<Call("flash_md5sum", entry.address, image_size, <<>>),
                           Call("read_flash", entry.address, image_size, <<>>)>>
                      \o [k \in 1..Len(differences) |->
                             Call("print", entry.address + differences[k], idx,
                                  <<flash[differences[k] + 1],
                                    image[differences[k] + 1]>>)]
                /\ task' = [task EXCEPT !.mismatch = TRUE]
                /\ idx' = idx + 1
                /\ UNCHANGED <<pc, err>>
    /\ UNCHANGED <<esp, device, req, compress, flash_size, all_files, faults>>

\* Lines 1379-1380: if mismatch: raise FatalError("Verify failed.")
VerifyEnd ==
    /\ pc = "vf_loop"
    /\ idx > Len(req.addr_filename)
    /\ IF task.mismatch
       THEN Raise(Fatal("Verify failed."))
       ELSE pc' = "vf_done" /\ UNCHANGED err
    /\ UNCHANGED <<esp, device, req, compress, flash_size, all_files, idx, task, wire,
                   faults>>

\* What the flash can hold in the region of an image: the image, or the image
\* with one or two bytes different.
Corrupt(image, S) ==
    [i \in 1..Len(image) |-> IF i \in S THEN (image[i] + 1) % 256 ELSE image[i]]

FlashContent(image, kind) ==
    CASE kind = "same" -> image
      [] kind = "one" -> Corrupt(image, {1})
      [] kind = "two" -> Corrupt(image, {2, Len(image)})

\* The lists of files verify_flash is called with: a bootloader image at the
\* bootloader offset, files of 5 and 2 bytes, in the order given.
VerifyLists ==
    LET boot == Task(ChipProfile("ESP32").BOOTLOADER_FLASH_OFFSET,
                     File("boot", BootImage(1), NoImage))
        app == Task(32768, Data("app", 5))
        small == Task(65536, Data("small", 2))
    IN  {<<boot, app>>, <<small, app>>, <<app, small, boot>>}

VerifyRequests ==
    [addr_filename : VerifyLists, flash_freq : {"keep"}, flash_mode : {"keep", "qio"},
     flash_size : {"keep", "2MB", "detect"}, diff : BOOLEAN]

VerifyInit ==
    /\ esp \in {[PlainEsp("ESP32", stub) EXCEPT !.secure_download_mode = sdm] :
                   stub \in BOOLEAN, sdm \in BOOLEAN}
    /\ req \in VerifyRequests
    /\ LET p == _set_flash_parameters(esp, req.flash_size)
       IN  \E kind \in [1..Len(req.addr_filename) -> {"same", "one", "two"}] :
              device = [flash |->
                           [i \in 1..Len(req.addr_filename) |->
                               FlashContent(VerifyImage(esp, req,
                                                IF p.err = NoErr THEN p.size ELSE "keep",
                                                req.addr_filename[i]),
                                            kind[i])]]
    /\ task = [mismatch |-> FALSE]
    /\ pc = "vf_entry"
    /\ idx = 1
    /\ flash_size = req.flash_size
    /\ err = NoErr
    /\ wire = <<>>
    /\ compress = FALSE
    /\ all_files = <<>>
    /\ faults = 0

VerifyNext ==
    \/ VerifyEntry
    \/ VerifyTask
    \/ VerifyEnd

VerifySpec == VerifyInit /\ [][VerifyNext]_vars

(***************************************************************************)
(* Claims about verify_flash, checked under VerifySpec.                    *)
(***************************************************************************)
\* The loop of verify_flash was entered and verify_flash has ended.
VerifyEnded ==
    \/ pc = "vf_done"
    \/ pc = "raised" /\ wire # <<>>

\* The image entry i is compared with: padded to 4 bytes and patched.
VerifyExpected(i) == VerifyImage(esp, req, flash_size, req.addr_filename[i])

\* The digest of the device for the region of entry i is not the image's.
Mismatching(i) == MD5(device.flash[i]) # MD5(VerifyExpected(i))

Md5Calls == SelectSeq(wire, LAMBDA c : c.op = "flash_md5sum")

\* The addresses of the diff lines printed for entry i.
DiffLines(i) == {wire[j].addr : j \in {k \in 1..Len(wire) : wire[k].op = "print" /\ wire[k].n = i}}

\* C27: verify_flash asks for the digest of every entry, in the order given,
\* whether or not an earlier one mismatched; it raises FatalError at the end
\* exactly when the digest of some entry differs from the digest of its padded
\* and patched image; it reads the flash back exactly for the mismatching
\* entries when diff is set, and the offsets it reports are exactly those where
\* the flash byte differs from the image byte.
C27_VerifyChecksAll ==
    VerifyEnded =>
        /\ Len(Md5Calls) = Len(req.addr_filename)
        /\ \A i \in 1..Len(req.addr_filename) :
              /\ Md5Calls[i].addr = req.addr_filename[i].address
              /\ Md5Calls[i].n = Len(VerifyExpected(i))
        /\ pc = "raised" <=> \E i \in 1..Len(req.addr_filename) : Mismatching(i)
        /\ pc = "raised" => err = Fatal("Verify failed.")
        /\ \A i \in 1..Len(req.addr_filename) :
              /\ (\E j \in 1..Len(wire) :
                     /\ wire[j].op = "read_flash"
                     /\ wire[j].addr = req.addr_filename[i].address)
                    <=> (Mismatching(i) /\ req.diff)
              /\ DiffLines(i) =
                    IF Mismatching(i) /\ req.diff
                    THEN {req.addr_filename[i].address + d - 1 :
                             d \in {k \in 1..Len(VerifyExpected(i)) :
                                      device.flash[i][k] # VerifyExpected(i)[k]}}
                    ELSE {}

\* Three entries with diff set: the first differs in two bytes, the second is
\* as expected, the third (a bootloader patched to a new mode) differs in one.
C27_Witness ==
    /\ pc = "raised"
    /\ err = Fatal("Verify failed.")
    /\ req.diff
    /\ req.flash_mode = "qio"
    /\ Len(req.addr_filename) = 3
    /\ Mismatching(1) /\ ~Mismatching(2) /\ Mismatching(3)
    /\ Cardinality(DiffLines(1)) = 2
    /\ Cardinality(DiffLines(3)) = 1
    /\ VerifyExpected(3) # pad_to(req.addr_filename[3].file.data, 4)

(***************************************************************************)
(* erase_flash (lines 1125-1149) and erase_region (lines 1152-1185).       *)
(*                                                                         *)
(* A fifth specification on the same variables: req is the command with    *)
(* its arguments address, size and force; wire the calls on the session.   *)
(***************************************************************************)
\* Mutant of SecurityRefuses: secure download mode does not lift the check.
SecurityRefuses_AlsoInSDM(e, force) ==
    /\ ~force /\ e.CHIP_NAME # "ESP8266"
    /\ (get_flash_encryption_enabled(e) \/ e.secure_boot_enabled)

\* if not force and esp.CHIP_NAME != "ESP8266" and not esp.secure_download_mode:
\* if esp.get_flash_encryption_enabled() or esp.get_secure_boot_enabled()
\* (lines 1133-1134, 1170-1171)
SecurityRefuses(e, force) ==
    /\ ~force /\ e.CHIP_NAME # "ESP8266" /\ ~e.secure_download_mode
    /\ (get_flash_encryption_enabled(e) \/ e.secure_boot_enabled)

\* The eFuse reads of the security check, the second one only when the first
\* says no.
SecurityReads(e, force) ==
    IF ~force /\ e.CHIP_NAME # "ESP8266" /\ ~e.secure_download_mode
    THEN <<Call("get_flash_encryption_enabled", 0, 0, <<>>)>>
            \o (IF get_flash_encryption_enabled(e) THEN <<>>
                ELSE <<Call("get_secure_boot_enabled", 0, 0, <<>>)>>)
    ELSE <<>>

\* erase_flash(esp, force)
EraseFlash ==
    /\ pc = "erase_call"
    /\ req.cmd = "erase_flash"
    /\ IF SecurityRefuses(esp, req.force)
       THEN /\ wire' = wire \o SecurityReads(esp, req.force)
            /\ Raise(Fatal("Active security features detected"))
       ELSE /\ wire' = wire \o SecurityReads(esp, req.force)
                            \o <<Call("erase_flash", 0, 0, <<>>)>>
            /\ pc' = "erase_done"
            /\ UNCHANGED err
    /\ UNCHANGED <<esp, device, req, compress, flash_size, all_files, idx, task, faults>>

\* erase_region(esp, address, size, force)
EraseRegion ==
    /\ pc = "erase_call"
    /\ req.cmd = "erase_region"
    /\ IF req.address % FLASH_SECTOR_SIZE # 0
       THEN Raise(Fatal("Offset to erase from must be a multiple of the sector size"))
            /\ UNCHANGED wire
       ELSE IF req.size % FLASH_SECTOR_SIZE # 0
       THEN Raise(Fatal("Size of data to erase must be a multiple of the sector size"))
            /\ UNCHANGED wire
       ELSE IF SecurityRefuses(esp, req.force)
       THEN /\ wire' = wire \o SecurityReads(esp, req.force)
            /\ Raise(Fatal("Active security features detected"))
       ELSE /\ wire' = wire \o SecurityReads(esp, req.force)
                   \o (IF esp.CHIP_NAME # "ESP8266" /\ ~esp.IS_STUB
                       THEN <<Call("flash_begin", req.address, req.size, <<>>)>>
                       ELSE <<Call("erase_region", req.address, req.size, <<>>)>>)
            /\ pc' = "erase_done"
            /\ UNCHANGED err
    /\ UNCHANGED <<esp, device, req, compress, flash_size, all_files, idx, task, faults>>

\* The sessions the erase commands are called on.
EraseSessions ==
    {[PlainEsp(chip, stub) EXCEPT !.secure_download_mode = sdm,
                                  !.secure_boot_enabled = sb,
                                  !.flash_crypt_cnt = cnt] :
        chip \in {"ESP8266", "ESP32", "ESP32-C3"}, stub \in BOOLEAN, sdm \in BOOLEAN,
        sb \in BOOLEAN, cnt \in {0, 1}}

EraseRequests ==
    [cmd : {"erase_flash"}, address : {0}, size : {0}, force : BOOLEAN]
    \cup [cmd : {"erase_region"}, address : {0, 100, 2 * FLASH_SECTOR_SIZE},
          size : {FLASH_SECTOR_SIZE, FLASH_SECTOR_SIZE + 1}, force : BOOLEAN]

EraseInit ==
    /\ esp \in EraseSessions
    /\ req \in EraseRequests
    /\ pc = "erase_call"
    /\ err = NoErr
    /\ wire = <<>>
    /\ device = [running |-> IF esp.IS_STUB THEN "stub" ELSE "rom"]
    /\ task = NoLocals
    /\ compress = FALSE
    /\ flash_size = "keep"
    /\ all_files = <<>>
    /\ idx = 0
    /\ faults = 0

EraseNext ==
    \/ EraseFlash
    \/ EraseRegion

EraseSpec == EraseInit /\ [][EraseNext]_vars

(***************************************************************************)
(* Claims about the erase commands, checked under EraseSpec.               *)
(***************************************************************************)
EraseEnded == pc \in {"erase_done", "raised"}

EraseCommands ==
    SelectSeq(wire, LAMBDA c : c.op \in {"erase_flash", "erase_region", "flash_begin"})

SecurityActive == OddBits(esp.flash_crypt_cnt) \/ esp.secure_boot_enabled

Exempt == req.force \/ esp.CHIP_NAME = "ESP8266" \/ esp.secure_download_mode

Misaligned ==
    /\ req.cmd = "erase_region"
    /\ (req.address % FLASH_SECTOR_SIZE # 0 \/ req.size % FLASH_SECTOR_SIZE # 0)

\* C28: erase_flash and erase_region raise FatalError and send no erase command
\* when flash encryption or secure boot is active, unless force is set, the chip
\* is an ESP8266 or the session is in secure download mode, in which cases the
\* erase is sent; erase_region rejects an address or a size that is not a
\* multiple of the sector size before any call on the device, with force too.
C28_EraseGuards ==
    EraseEnded =>
        /\ Misaligned => (Rejected /\ wire = <<>>)
        /\ (~Misaligned /\ SecurityActive /\ ~Exempt) =>
              (Rejected /\ EraseCommands = <<>>)
        /\ (~Misaligned /\ (~SecurityActive \/ Exempt)) =>
              (pc = "erase_done" /\ Len(EraseCommands) = 1)

\* erase_region of whole sectors, without force, on a chip with flash
\* encryption on: refused after the eFuse read, no erase command sent.
C28_Witness ==
    /\ pc = "raised"
    /\ req.cmd = "erase_region"
    /\ ~req.force
    /\ ~Misaligned
    /\ OddBits(esp.flash_crypt_cnt)
    /\ wire # <<>>
    /\ EraseCommands = <<>>

(***************************************************************************)
(* image_info (lines 1692-1737): the checks before the image is parsed.    *)
(*                                                                         *)
(* A sixth specification on the same variables: req is the file's bytes    *)
(* and the chip argument; task.chip the local chip; wire the calls made.   *)
(***************************************************************************)
\* ESP8266V2FirmwareImage.IMAGE_V2_MAGIC
IMAGE_V2_MAGIC == 234

\* Mutant of ValidMagic: any first byte is taken.
ValidMagic_Any(magic) == TRUE

\* magic in [ESPLoader.ESP_IMAGE_MAGIC, ESP8266V2FirmwareImage.IMAGE_V2_MAGIC]
\* (lines 1709-1712)
ValidMagic(magic) == magic \in {ESP_IMAGE_MAGIC, IMAGE_V2_MAGIC}

\* Lines 1701-1715: the first 8 bytes are read; an empty file and a first byte
\* that is not a magic number raise FatalError.
ImageInfoMagic ==
    /\ pc = "ii_magic"
    /\ LET common_header == Take(req.data, 8)
       IN  IF common_header = <<>>
           THEN Raise(Fatal("File is empty"))
           ELSE IF ~ValidMagic(common_header[1])
           THEN Raise(Fatal(<<"This is not a valid image (invalid magic number)",
                              common_header[1]>>))
           ELSE /\ pc' = IF req.chip = "auto" THEN "ii_detect" ELSE "ii_load"
                /\ UNCHANGED err
    /\ UNCHANGED <<esp, device, req, compress, flash_size, all_files, idx, task, wire,
                   faults>>

\* Lines 1717-1735: chip == "auto": the chip is taken from the extended header;
\* a FatalError inside makes it esp8266, an empty extended header is an
\* IndexError.
ImageInfoDetect ==
    /\ pc = "ii_detect"
    /\ LET extended_header == Take(Drop(req.data, 8), 16)
           chip_id == IF Len(extended_header) >= 5 THEN extended_header[5] ELSE 0
           roms == {i \in 1..Len(ROM_LIST) :
                       /\ ROM_LIST[i].CHIP_NAME # "ESP8266"
                       /\ chip_id = ROM_LIST[i].IMAGE_CHIP_ID}
       IN  IF extended_header = <<>>
           THEN Raise([exc |-> "IndexError", msg |-> ""]) /\ UNCHANGED task
           ELSE /\ task' = [task EXCEPT !.chip =
                               IF extended_header[Len(extended_header)] \notin {0, 1}
                               THEN "esp8266"
                               ELSE IF roms = {} THEN "esp8266"
                               ELSE ROM_LIST[First(roms)].CHIP_NAME]
                /\ pc' = "ii_load"
                /\ UNCHANGED err
    /\ UNCHANGED <<esp, device, req, compress, flash_size, all_files, idx, wire, faults>>

\* Line 1737: image = LoadFirmwareImage(chip, filename); it returns the image or
\* raises.
ImageInfoLoad ==
    /\ pc = "ii_load"
    /\ \E o \in {"ok", FatalErr} :
          /\ wire' = Append(wire, Call("LoadFirmwareImage", 0, 0, task.chip))
          /\ IF o = "ok"
             THEN pc' = "ii_loaded" /\ UNCHANGED err
             ELSE Raise([exc |-> o, msg |-> ""])
    /\ UNCHANGED <<esp, device, req, compress, flash_size, all_files, idx, task, faults>>

\* The files image_info is called on: empty, one byte, a bare header, header and
\* extended header with the chip id and the digest flag varying; the first
\* byte is a magic number or not.
InfoFiles ==
    {<<>>}
    \cup { <<magic>> \o rest :
             magic \in {ESP_IMAGE_MAGIC, IMAGE_V2_MAGIC, 0, 1, FF},
             rest \in {<<>>, <<1, 2, 32, 0, 0, 0, 0>>} }
    \cup { <<magic, 1, 2, 32, 0, 0, 0, 0>> \o <<0, 0, 0, 0, chip_id>>
               \o [i \in 1..10 |-> 0] \o <<sha>> :
             magic \in {ESP_IMAGE_MAGIC, IMAGE_V2_MAGIC, 0, FF},
             chip_id \in {0, 5, 77}, sha \in {0, 1, 2} }

ImageInfoInit ==
    /\ req \in [data : InfoFiles, chip : {"auto", "esp32", "esp8266"}]
    /\ task = [chip |-> req.chip]
    /\ pc = "ii_magic"
    /\ err = NoErr
    /\ wire = <<>>
    /\ esp = NoInst
    /\ device = [running |-> "none"]
    /\ compress = FALSE
    /\ flash_size = "keep"
    /\ all_files = <<>>
    /\ idx = 0
    /\ faults = 0

ImageInfoNext ==
    \/ ImageInfoMagic
    \/ ImageInfoDetect
    \/ ImageInfoLoad

ImageInfoSpec == ImageInfoInit /\ [][ImageInfoNext]_vars

(***************************************************************************)
(* Claims about image_info, checked under ImageInfoSpec.                   *)
(***************************************************************************)
\* C29: on a file whose first byte is not an image magic image_info raises
\* FatalError "not a valid image", on an empty file FatalError "File is empty";
\* for these files it raises nothing else and the image is never parsed.
C29_BadMagicRejected ==
    (pc # "ii_magic"
        /\ (req.data = <<>> \/ req.data[1] \notin {ESP_IMAGE_MAGIC, IMAGE_V2_MAGIC})) =>
        /\ pc = "raised"
        /\ wire = <<>>
        /\ err = IF req.data = <<>>
                 THEN Fatal("File is empty")
                 ELSE Fatal(<<"This is not a valid image (invalid magic number)",
                              req.data[1]>>)

\* A bare header of 8 bytes whose first byte is not a magic number.
C29_Witness ==
    /\ pc = "raised"
    /\ Len(req.data) = 8
    /\ req.data[1] = 0
    /\ err.exc = "FatalError"

(***************************************************************************)
(* merge_bin, raw format (lines 1914-2018).                                *)
(*                                                                         *)
(* A seventh specification on the same variables: req is the arguments     *)
(* addr_filename, chip, flash_mode, target_offset and pad_to_size;         *)
(* all_files the sorted input_files; idx the position of the loop;         *)
(* task.out the bytes written to the output file so far.                   *)
(***************************************************************************)
\* CHIP_DEFS[chip]: the chip class, or KeyError
CHIP_DEFS(chip) ==
    CASE chip = "esp32" -> [ok |-> TRUE, class |-> ChipProfile("ESP32")]
      [] chip = "esp32c3" -> [ok |-> TRUE, class |-> ChipProfile("ESP32-C3")]
      [] OTHER -> [ok |-> FALSE, class |-> ChipProfile("ESP8266")]

\* def pad_to(flash_offs): of.write(b"\xff" * (flash_offs - target_offset -
\* of.tell())) (lines 2002-2004); a count below zero writes nothing
PadBytes(flash_offs, target_offset, tell) == Fill(flash_offs - target_offset - tell)

\* Lines 1957-1978: the chip class, the sort, the two checks on the list.
MergeEntry ==
    /\ pc = "mg_entry"
    /\ LET input_files == SortedByAddress(req.addr_filename)
       IN  IF ~CHIP_DEFS(req.chip).ok
           THEN Raise(Fatal("Please specify the chip argument"))
                /\ UNCHANGED <<all_files, idx>>
           ELSE IF input_files = <<>>
           THEN Raise(Fatal("No input files specified"))
                /\ UNCHANGED <<all_files, idx>>
           ELSE IF input_files[1].address < req.target_offset
           THEN Raise(Fatal("Input file offset is before the output file target offset"))
                /\ UNCHANGED <<all_files, idx>>
           ELSE /\ all_files' = input_files
                /\ idx' = 1
                /\ pc' = "mg_write"
                /\ UNCHANGED err
    /\ UNCHANGED <<esp, device, req, compress, flash_size, task, wire, faults>>

\* Lines 2006-2012: one file: the padding up to its address, then its image.
MergeWrite ==
    /\ pc = "mg_write"
    /\ idx <= Len(all_files)
    /\ LET entry == all_files[idx]
           image == _update_image_flash_params(CHIP_DEFS(req.chip).class,
                        entry.address, req.flash_freq, req.flash_mode, req.flash_size,
                        entry.file.data)
           padded == task.out \o PadBytes(entry.address, req.target_offset, Len(task.out))
       IN  task' = [task EXCEPT !.out = padded \o image]
    /\ idx' = idx + 1
    /\ UNCHANGED <<esp, device, req, pc, err, compress, flash_size, all_files, wire,
                   faults>>

\* Lines 2013-2018: the padding up to pad_to_size, if given; the file is closed.
MergeFinish ==
    /\ pc = "mg_write"
    /\ idx > Len(all_files)
    /\ task' = [task EXCEPT !.out =
                   IF req.pad_to_size # "None"
                   THEN @ \o PadBytes(flash_size_bytes(req.pad_to_size),
                                      req.target_offset, Len(@))
                   ELSE @]
    /\ pc' = "mg_done"
    /\ UNCHANGED <<esp, device, req, err, compress, flash_size, all_files, idx, wire,
                   faults>>

\* File k of n bytes, no two files with a byte in common.
MergeFile(k, n) == File("f", [i \in 1..n |-> 10 * k + i], NoImage)

\* The entries of the lists: files at 0, 1, 4 and 8, the first two overlapping.
MergeEntries ==
    {Task(0, MergeFile(1, 2)), Task(1, MergeFile(2, 2)), Task(4, MergeFile(3, 3)),
     Task(8, MergeFile(4, 1))}

\* The lists merge_bin is called with: up to three entries in any order.
MergeLists ==
    {<<>>} \cup {<<a>> : a \in MergeEntries}
           \cup {<<a, b>> : a \in MergeEntries, b \in MergeEntries}
           \cup {<<a, b, c>> : a \in MergeEntries, b \in MergeEntries, c \in MergeEntries}

MergeInit ==
    /\ req \in [addr_filename : MergeLists, chip : {"esp32", "auto"},
                flash_freq : {"keep"}, flash_mode : {"keep", "qio"},
                flash_size : {"keep"}, target_offset : {0, 1},
                pad_to_size : {"None"}]
    /\ task = [out |-> <<>>]
    /\ pc = "mg_entry"
    /\ all_files = <<>>
    /\ idx = 0
    /\ err = NoErr
    /\ wire = <<>>
    /\ esp = NoInst
    /\ device = [running |-> "none"]
    /\ compress = FALSE
    /\ flash_size = "keep"
    /\ faults = 0

MergeNext ==
    \/ MergeEntry
    \/ MergeWrite
    \/ MergeFinish

MergeSpec == MergeInit /\ [][MergeNext]_vars

(***************************************************************************)
(* Claims about merge_bin, checked under MergeSpec.                        *)
(***************************************************************************)
\* The bytes of entry e are in the output from offset address - target_offset.
PlacedAtAddress(e) ==
    LET from == e.address - req.target_offset
    IN  /\ Len(task.out) >= from + Len(e.file.data)
        /\ SubSeq(task.out, from + 1, from + Len(e.file.data)) = e.file.data

\* Output offset k (from 0) is inside some input file.
Covered(k) ==
    \E i \in 1..Len(req.addr_filename) :
        LET e == req.addr_filename[i]
        IN  k + req.target_offset \in e.address..(e.address + Len(e.file.data) - 1)

\* C30: in raw format the bytes of every input file start at output offset
\* (address - target_offset) and every gap between input files is filled with
\* 0xFF, for every list of input files merge_bin accepts.
C30_RawLayout ==
    pc = "mg_done" =>
        /\ \A i \in 1..Len(req.addr_filename) : PlacedAtAddress(req.addr_filename[i])
        /\ \A k \in 0..(Len(task.out) - 1) : ~Covered(k) => task.out[k + 1] = FF

(***************************************************************************)
(* More claims about detect_chip, checked under SessionSpec.               *)
(***************************************************************************)
\* The magic-value read of the fallback is call j of the log.
IsMagicRead(j) == wire[j].n = 2 /\ wire[j].op = "read_reg"

\* Call k is the get-chip-id request and it raised.
ChipIdRaised(k) == wire[k].op = "get_chip_id" /\ wire[k].data # "ok"

\* No call of the fallback phase was made.
NoFallback == \A j \in 1..Len(wire) : wire[j].n # 2

\* The reconnect of the fallback is the call before call j.
ReconnectedBefore(j) ==
    j > 1 /\ wire[j - 1] = Did("connect", 2, "ok")

\* C31: the magic value is read only after the get-chip-id request
\* raised; a chip id that matches no profile leads to failure with no
\* fallback; the device is reconnected before the magic read unless the error
\* of phase 1 was a struct.error.
C31_FallbackOnlyAfterChipIdError ==
    /\ \A j \in 1..Len(wire) :
          IsMagicRead(j) =>
              /\ \E k \in 1..(j - 1) : ChipIdRaised(k)
              /\ ReconnectedBefore(j) <=> task.e # StructError
    /\ (task.chip_id # None /\ NoIdProfile(task.chip_id)) =>
          /\ NoFallback
          /\ pc \in {"dc_finish", "raised"}
          /\ pc = "raised" => err = Fatal(task.err_msg)

\* The phase the session in inst was built in: the fallback when the magic
\* value read there is the key of a profile, else phase 1.
SessionPhase ==
    IF task.chip_magic_value # None /\ ~NoMagicProfile(task.chip_magic_value)
    THEN 2 ELSE 1

\* C36: every session detect_chip returns has had its post-connect step run to
\* completion without error; a session of phase 1 whose secure-download probe
\* or post-connect step raised is not returned, whatever the fallback observes.
C36_ReturnedSessionPostConnected ==
    DetectReturned =>
        \E j \in 1..Len(wire) : wire[j] = Did("_post_connect", SessionPhase, "ok")

(***************************************************************************)
(* More claims about _update_image_flash_params, checked under PatchSpec.  *)
(***************************************************************************)
\* C35: when an image is patched, each parameter whose override is "keep" keeps
\* the value of the input header: byte 2 for the mode, the low nibble of byte 3
\* for the frequency, the high nibble of byte 3 for the size, whichever of the
\* other two are overridden.
C35_KeepKeepsField ==
    (PatchReturned /\ PatchApplies) =>
        /\ task.flash_mode = "keep" => task.returned[3] = task.image[3]
        /\ task.flash_freq = "keep" => task.returned[4] % 16 = task.image[4] % 16
        /\ task.flash_size = "keep" =>
              task.returned[4] \div 16 = task.image[4] \div 16

\* Only the frequency is overridden: byte 2 and the size nibble are the
\* input's, the frequency nibble is the new one.
C35_Witness ==
    /\ PatchReturned /\ PatchApplies
    /\ task.flash_mode = "keep" /\ task.flash_freq = "40m" /\ task.flash_size = "keep"
    /\ task.returned[3] = task.image[3]
    /\ task.returned[4] \div 16 = task.image[4] \div 16
    /\ task.image[4] \div 16 # 0
    /\ task.returned[4] % 16 # task.image[4] % 16

(***************************************************************************)
(* More claims about write_flash, checked under Spec.                      *)
(***************************************************************************)
\* The first attempt of the task of the loop: nothing has changed the session
\* since the image was prepared.
FirstAttempt == pc \in {"begin", "blocks"} /\ task.attempt = 1

\* The image of the task before compression.
Uncompressed == IF compress THEN Decompress(task.original_image) ELSE task.original_image

\* The bytes of entry as they go to its own address: padded, and patched where
\* write_flash patches.
OwnBytes(entry) ==
    LET padded == pad_to(entry.file.data,
                         IF entry.encrypted THEN esp.FLASH_ENCRYPTED_WRITE_ALIGN ELSE 4)
    IN  IF ~esp.secure_download_mode /\ ~esp.secure_boot_enabled
        THEN _update_image_flash_params(esp, entry.address, req.flash_freq,
                                        req.flash_mode, flash_size, padded)
        ELSE padded

\* The last begin command before call j of the log.
BeginBefore(j) ==
    LET S == {k \in 1..(j - 1) : IsBegin(wire[k])}
    IN  CHOOSE k \in S : \A m \in S : m <= k

\* C32: when the session does not run the stub a task is written at its address
\* rounded down to a sector boundary, with (address mod FLASH_SECTOR_SIZE) 0xFF
\* bytes before the image, so that its own bytes land at the address asked for;
\* the size declared, the local hash and the region verified cover the bytes
\* put before.  Under the stub address and image are as given.
C32_SectorRounding ==
    /\ FirstAttempt =>
          LET entry == all_files[idx]
              over == IF esp.IS_STUB THEN 0 ELSE entry.address % FLASH_SECTOR_SIZE
          IN  /\ task.address = entry.address - over
              /\ Uncompressed = Fill(over) \o OwnBytes(entry)
              /\ task.uncsize = over + Len(OwnBytes(entry))
              /\ task.calcmd5 = MD5(Uncompressed)
              /\ pc = "blocks" =>
                    /\ wire[LastIdx(IsBegin)].addr = task.address
                    /\ wire[LastIdx(IsBegin)].n = task.uncsize
    /\ \A j \in 1..Len(wire) :
          wire[j].op = "flash_md5sum" =>
              /\ wire[j].addr = wire[BeginBefore(j)].addr
              /\ wire[j].n = wire[BeginBefore(j)].n

\* A file of 5 bytes at 4098 in boot-ROM mode: begun at 4096 with 2 + 8 bytes.
C32_Witness ==
    /\ pc = "blocks"
    /\ task.attempt = 1
    /\ ~esp.IS_STUB
    /\ all_files[idx].address = 4098
    /\ task.address = 4096
    /\ task.uncsize = 10
    /\ Take(Uncompressed, 2) = <<FF, FF>>


(***************************************************************************)
(* C33.  With erase_all set, write_flash issues exactly one whole-chip     *)
(* erase, after the three pre-flights have passed and before the first     *)
(* begin command; without erase_all it issues no erase command.  As        *)
(* stated: once the pre-flights have passed and line 648 is behind, the    *)
(* log holds one erase, at its head.                                       *)
(***************************************************************************)
EraseCalls == {j \in 1..Len(wire) : IsErase(wire[j])}

\* None of the three pre-flights raises for this session and request.
PreflightsPass ==
    /\ SecurityPreflight(esp, req) = NoErr
    /\ EncryptionPreflight(esp, req) = NoErr
    /\ GeometryPreflight(esp, req).err = NoErr

\* Lines 647-669 are behind, and it was not a pre-flight that raised.
PastEraseStep ==
    /\ pc \notin {"preflight", "erase"}
    /\ wire = <<>> => PreflightsPass

\* erase_flash's own guard (lines 1127-1140), force being left at False.
EraseWithheld ==
    /\ esp.CHIP_NAME # "ESP8266"
    /\ ~esp.secure_download_mode
    /\ (OddBits(esp.flash_crypt_cnt) \/ esp.secure_boot_enabled)

C33_OneEraseAfterPreflight ==
    /\ req.erase_all /\ PastEraseStep => EraseCalls = {1}
    /\ ~req.erase_all => EraseCalls = {}
    /\ EraseCalls # {} /\ Len(wire) = 1 => PreflightsPass

\* C33, amended: with erase_all set and the pre-flights passed, write_flash
\* issues exactly one whole-chip erase, before any begin command, unless
\* erase_flash refuses (flash encryption or secure boot active, outside secure
\* download mode, chip other than ESP8266); then write_flash raises its
\* FatalError and nothing is erased or written.  Without erase_all no erase
\* command is issued.
C33_OneEraseUnlessRefused ==
    /\ req.erase_all /\ PastEraseStep =>
          IF EraseWithheld
          THEN /\ wire = <<>>
               /\ pc = "raised"
               /\ err = Fatal("Active security features detected")
          ELSE EraseCalls = {1}
    /\ ~req.erase_all => EraseCalls = {}
    /\ EraseCalls # {} /\ Len(wire) = 1 => PreflightsPass

C33_Witness ==
    /\ req.erase_all
    /\ pc = "done"
    /\ EraseCalls = {1}
    /\ \E j \in 2..Len(wire) : IsBegin(wire[j])


(***************************************************************************)
(* C34.  Within a transfer attempt write_flash sends one begin command     *)
(* declaring the uncompressed size and the write address, then data blocks *)
(* numbered 0, 1, 2, ... each carrying the next at most FLASH_WRITE_SIZE   *)
(* bytes of the image (an uncompressed block filled with 0xFF up to        *)
(* FLASH_WRITE_SIZE), until the image is exhausted; the payloads without   *)
(* the fill are the image.                                                 *)
(***************************************************************************)
\* The attempt under way or just completed: nothing but its begin command and
\* its blocks since the last begin command.
InAttempt ==
    /\ pc \in {"blocks", "post_task"}
    /\ LastIdx(IsBegin) > 0
    /\ pc = "post_task" => IsBlock(wire[Len(wire)])

\* The i-th FLASH_WRITE_SIZE bytes of the image as sent (compressed if so).
Chunk(i) == Take(Drop(task.original_image, (i - 1) * FLASH_WRITE_SIZE), FLASH_WRITE_SIZE)

\* The data of the log entries b+1 .. b+k.
RECURSIVE PayloadSince(_, _)
PayloadSince(b, k) ==
    IF k = 0 THEN <<>> ELSE PayloadSince(b, k - 1) \o wire[b + k].data

C34_BlocksInOrder ==
    InAttempt =>
        LET b == LastIdx(IsBegin)
            k == Len(wire) - b
            size == Len(task.original_image)
        IN  /\ wire[b].addr = task.address
            /\ wire[b].n = Len(Uncompressed)
            /\ wire[b].op = IF compress THEN "flash_defl_begin" ELSE "flash_begin"
            /\ \A i \in 1..k :
                  /\ IsBlock(wire[b + i])
                  /\ wire[b + i].n = i - 1
                  /\ Len(Chunk(i)) > 0
                  /\ IF compress
                     THEN wire[b + i].data = Chunk(i)
                     ELSE wire[b + i].data
                              = Chunk(i) \o Fill(FLASH_WRITE_SIZE - Len(Chunk(i)))
            /\ task.image = Drop(task.original_image, k * FLASH_WRITE_SIZE)
            /\ pc = "blocks" => k * FLASH_WRITE_SIZE < size
            /\ pc = "post_task" =>
                  /\ k * FLASH_WRITE_SIZE >= size
                  /\ Take(PayloadSince(b, k), size) = task.original_image
                  /\ Drop(PayloadSince(b, k), size)
                         = IF compress THEN <<>> ELSE Fill(k * FLASH_WRITE_SIZE - size)

\* A completed second attempt of an uncompressed image of three blocks, the
\* last one filled.
C34_Witness ==
    /\ InAttempt
    /\ pc = "post_task"
    /\ ~compress
    /\ task.attempt = 2
    /\ Len(wire) - LastIdx(IsBegin) = 3
    /\ Len(task.original_image) % FLASH_WRITE_SIZE # 0


(***************************************************************************)
(* C39.  Outside secure download mode, when the flash id maps to no known  *)
(* size and a flash size is set (explicitly, or the 4MB that "detect"      *)
(* falls back to), write_flash checks that every task fits in the set size *)
(* and fails only if one does not; when no size is set ("keep") the check  *)
(* is skipped and the write goes on.                                       *)
(***************************************************************************)
\* detect_flash_size returns None for this device.
UnknownFlashId ==
    /\ ~esp.secure_download_mode
    /\ DETECTED_FLASH_SIZES(esp.flash_size_id) = "None"

\* The size set by the request, None when it is "keep".
SetSize ==
    IF req.flash_size = "keep" THEN None
    ELSE flash_size_bytes(IF req.flash_size = "detect" THEN "4MB" ELSE req.flash_size)

FitsIn(size) ==
    \A i \in 1..Len(req.addr_filename) :
        req.addr_filename[i].address + Len(req.addr_filename[i].file.data) <= size

C39_UnknownFlashChecksSetSize ==
    /\ UnknownFlashId
    /\ pc # "preflight"
    /\ SecurityPreflight(esp, req) = NoErr
    /\ EncryptionPreflight(esp, req) = NoErr
    => IF SetSize # None /\ ~FitsIn(SetSize)
       THEN /\ pc = "raised"
            /\ err = Fatal("will not fit in flash")
            /\ wire = <<>>
       ELSE /\ err.exc # "TypeError"
            /\ err # Fatal("will not fit in flash")


(***************************************************************************)
(* C40.  With no encryption requested and force not set, on a chip other   *)
(* than ESP8266, write_flash raises a FatalError before anything is erased *)
(* or written when flash encryption is enabled on the device and either    *)
(* the session is in secure download mode (which an ESP32 does not have)   *)
(* or encrypted download is disabled.                                      *)
(***************************************************************************)
PlaintextRequest == ~req.encrypt /\ ~req.encrypt_files.given

\* line 593: ESP32 does not support secure_download_mode
SessionExists == esp.CHIP_NAME = "ESP32" => ~esp.secure_download_mode

C40_PlaintextOnEncryptedRefused ==
    /\ PlaintextRequest
    /\ ~req.force
    /\ esp.CHIP_NAME # "ESP8266"
    /\ SessionExists
    /\ OddBits(esp.flash_crypt_cnt)
    /\ esp.secure_download_mode \/ esp.encrypted_download_disabled
    /\ pc # "preflight"
    => /\ pc = "raised"
       /\ err.exc = "FatalError"
       /\ FlashUntouched

\* The refusal in secure download mode, for a request the secure boot pre-flight
\* lets through.
C40_Witness ==
    /\ PlaintextRequest
    /\ ~req.force
    /\ esp.secure_download_mode
    /\ esp.encrypted_download_disabled
    /\ pc = "raised"
    /\ err = Fatal("flash encryption and secure download mode enabled")
    /\ wire = <<>>


(***************************************************************************)
(* C37.  When the tasks' own ranges [address, address + length) are        *)
(* pairwise disjoint, what is written for one task leaves alone what was   *)
(* written for another: after write_flash has returned normally the flash  *)
(* holds every task's bytes at its address.                                *)
(***************************************************************************)
\* The number of block commands that follow entry j of the log.
RECURSIVE RunOfBlocks(_)
RunOfBlocks(j) ==
    IF j + 1 <= Len(wire) /\ IsBlock(wire[j + 1]) THEN 1 + RunOfBlocks(j + 1) ELSE 0

\* The bytes the transfer begun at entry j puts in flash from wire[j].addr on.
Written(j) ==
    LET p == PayloadSince(j, RunOfBlocks(j))
    IN  IF wire[j].op = "flash_defl_begin" THEN Decompress(p) ELSE p

\* The byte at address a of a flash that stores what is written: that of the last
\* transfer whose declared range holds a (None where nothing was written).
FlashAt(a) ==
    LET S == {j \in 1..Len(wire) :
                 /\ IsBegin(wire[j])
                 /\ wire[j].addr <= a
                 /\ a < wire[j].addr + wire[j].n}
    IN  IF S = {} THEN None
        ELSE LET j == CHOOSE j \in S : \A k \in S : k <= j
                 w == Written(j)
             IN  IF a - wire[j].addr + 1 <= Len(w) THEN w[a - wire[j].addr + 1] ELSE None

OwnRangesDisjoint ==
    \A i, k \in 1..Len(all_files) :
        i < k => \/ all_files[i].address + Len(OwnBytes(all_files[i]))
                        <= all_files[k].address
                 \/ all_files[k].address + Len(OwnBytes(all_files[k]))
                        <= all_files[i].address

C37_TasksLeaveEachOtherAlone ==
    pc = "done" /\ OwnRangesDisjoint =>
        \A i \in 1..Len(all_files) :
            ~all_files[i].encrypted /\ Len(all_files[i].file.data) > 0 =>
                \A k \in 1..Len(OwnBytes(all_files[i])) :
                    FlashAt(all_files[i].address + k - 1) = OwnBytes(all_files[i])[k]


(***************************************************************************)
(* C38.  After write_flash has returned normally for non-encrypted tasks   *)
(* outside secure download mode, on a device that stores what is written,  *)
(* verify_flash with the same tasks, flash_freq, flash_mode and flash_size *)
(* succeeds, with or without secure boot and the stub: the bytes it        *)
(* expects for each task (lines 1344-1349) are those in flash.             *)
(***************************************************************************)
C38_VerifyAfterWriteSucceeds ==
    /\ pc = "done"
    /\ ~esp.secure_download_mode
    /\ \A i \in 1..Len(all_files) : ~all_files[i].encrypted
    => \A i \in 1..Len(req.addr_filename) :
           LET entry == req.addr_filename[i]
               image == VerifyImage(esp, req, flash_size, entry)
           IN  \A k \in 1..Len(image) : FlashAt(entry.address + k - 1) = image[k]

====
